---- MODULE Spec2Model ----
(***************************************************************************)
(* A model of the parser-combinator engine of the repository              *)
(* (src/Src/parsing/combinators.py and its older variant                  *)
(* src/Activities/parsing/combinators.py).                                *)
(*                                                                         *)
(* Python values are modelled as tagged records [t |-> tag, v |-> value]; *)
(* a Python str is a sequence of one-character strings.  A parser is a    *)
(* record holding the name of its matching function (op), the values its  *)
(* closure captured, and its parser_label attribute.  Applying a parser   *)
(* is the recursive operator Run, which returns the ParseResult together  *)
(* with the list of parser invocations made, in call order.               *)
(***************************************************************************)
EXTENDS Integers, Sequences, FiniteSets, TLC

(***************************************************************************)
(* Bounds of the model.                                                    *)
(***************************************************************************)
MaxLen == 4

Alphabet == {"a", "b", "c"}

(***************************************************************************)
(* Python values.                                                          *)
(***************************************************************************)
PyStr(s) == [t |-> "str", v |-> s]

PyInt(n) == [t |-> "int", v |-> n]

PyBool(b) == [t |-> "bool", v |-> b]

PyTuple(xs) == [t |-> "tuple", v |-> xs]

PyList(xs) == [t |-> "list", v |-> xs]

PyNone == [t |-> "none", v |-> 0]

Max(a, b) == IF a >= b THEN a ELSE b

Min(a, b) == IF a <= b THEN a ELSE b

\* The text of a Python str, as one string (used in messages and labels).
RECURSIVE Text(_)
Text(s) == IF s = <<>> THEN "" ELSE Head(s) \o Text(Tail(s))

\* str.join on a list of strings.
RECURSIVE Join(_, _)
Join(strs, sep) ==
    IF strs = <<>> THEN ""
    ELSE IF Len(strs) = 1 THEN strs[1]
    ELSE strs[1] \o sep \o Join(Tail(strs), sep)

\* sep.join(xs) on a list of str values: a str value.
RECURSIVE str_join(_, _)
str_join(sep, xs) ==
    IF xs = <<>> THEN <<>>
    ELSE IF Len(xs) = 1 THEN xs[1].v
    ELSE xs[1].v \o sep \o str_join(sep, Tail(xs))

\* format(x) of a Python value, as an f-string renders it (a parser is a
\* function).
RECURSIVE Show(_)
Show(x) ==
    IF "op" \in DOMAIN x THEN "<function " \o x.op \o ">"
    ELSE
    CASE x.t = "str" -> Text(x.v)
      [] x.t = "int" -> ToString(x.v)
      [] x.t = "bool" -> IF x.v THEN "True" ELSE "False"
      [] x.t = "none" -> "None"
      [] x.t = "tuple" -> "(" \o Join([i \in 1..Len(x.v) |-> Show(x.v[i])], ", ") \o ")"
      [] x.t = "list" -> "[" \o Join([i \in 1..Len(x.v) |-> Show(x.v[i])], ", ") \o "]"

(***************************************************************************)
(* ParseState                                                              *)
(***************************************************************************)
ParseState(source, point, start) ==
    LET n == Len(source)
        pt == IF point >= 0 THEN Min(point, n) ELSE Max(n + point, 0)
    IN [source |-> source,
        point |-> pt,
        start |-> IF start >= 0 THEN start ELSE pt]

view(state, maxlen) ==
    LET n == Len(state.source)
        end == IF maxlen < 0 THEN n ELSE Min(state.point + maxlen, n)
    IN SubSeq(state.source, state.point + 1, end)

\* require, returning what is left when it is less than size.
require_lax(state, size) == [view |-> view(state, size), enough |-> TRUE]

require(state, size) ==
    LET n == Len(state.source)
    IN IF state.point + size > n
       THEN [view |-> <<>>, enough |-> FALSE]
       ELSE [view |-> view(state, size), enough |-> TRUE]

\* advance, adding to point without the constructor.
advance_unclamped(state, by) == [state EXCEPT !.point = @ + by]

advance(state, by) ==
    IF by = 0 THEN state
    ELSE ParseState(state.source, state.point + by, state.start)

(***************************************************************************)
(* Success and Failure                                                     *)
(***************************************************************************)
Success(result, state) == [ok |-> TRUE, result |-> result, state |-> state]

\* data: a function from keys to values; None is the empty function.
NoData == <<>>

Failure(message, pos, data) ==
    [ok |-> FALSE, message |-> message, pos |-> pos, data |-> data]

\* An exception raised instead of a result being returned.
Raised(exception, message) == [raised |-> exception, message |-> message]

failed(parse) == ~parse.ok

succeeded(parse) == parse.ok

merge_data(data1, data2) ==
    IF data1 = NoData THEN data2
    ELSE IF data2 = NoData THEN data1
    ELSE data2 @@ data1

get_label(p) == p.parser_label

set_label(p, label) == [p EXCEPT !.parser_label = label]

(***************************************************************************)
(* re.match for the patterns the model uses: literal characters, a        *)
(* literal followed by '+', and capture groups written with parentheses   *)
(* (not nested, not quantified).  A '+' run is never followed by the same *)
(* literal in the patterns of the model, so the greedy scan needs no      *)
(* backtracking.  The result holds group 0 first, then groups 1, 2, ...   *)
(***************************************************************************)
RECURSIVE run_length(_, _, _)
run_length(tokens, j, c) ==
    IF j < Len(tokens) /\ tokens[j + 1] = c THEN 1 + run_length(tokens, j + 1, c) ELSE 0

RECURSIVE re_scan(_, _, _, _, _, _)
re_scan(pattern, i, tokens, j, groups, open) ==
    IF i > Len(pattern)
    THEN [matched |-> TRUE, groups |-> <<SubSeq(tokens, 1, j)>> \o groups]
    ELSE IF pattern[i] = "("
    THEN re_scan(pattern, i + 1, tokens, j, groups, j)
    ELSE IF pattern[i] = ")"
    THEN re_scan(pattern, i + 1, tokens, j, Append(groups, SubSeq(tokens, open + 1, j)), -1)
    ELSE IF i < Len(pattern) /\ pattern[i + 1] = "+"
    THEN LET k == run_length(tokens, j, pattern[i])
         IN IF k = 0 THEN [matched |-> FALSE, groups |-> <<>>]
            ELSE re_scan(pattern, i + 2, tokens, j + k, groups, open)
    ELSE IF j < Len(tokens) /\ tokens[j + 1] = pattern[i]
    THEN re_scan(pattern, i + 1, tokens, j + 1, groups, open)
    ELSE [matched |-> FALSE, groups |-> <<>>]

re_match(pattern, tokens) == re_scan(pattern, 1, tokens, 0, <<>>, -1)

NOFLAG == 0

(***************************************************************************)
(* Parser values: constructors.  Each returns the parser a call of the    *)
(* Python function of the same name returns: its matching function (op),  *)
(* what the closure captured, and the label set by the decorator.         *)
(***************************************************************************)
void == [op |-> "void", parser_label |-> "void"]

failure(reason) == [op |-> "fails", reason |-> reason, parser_label |-> "fails(" \o reason \o ")"]

pure(x) == [op |-> "pureP", x |-> x, parser_label |-> "pure(" \o Show(x) \o ")"]

fmap(p, f) == [op |-> "mapped", p |-> p, f |-> f, parser_label |-> "fmap(" \o get_label(p) \o ")"]

pipe(p, f) == [op |-> "piped", p |-> p, f |-> f, parser_label |-> "pipe(" \o get_label(p) \o ")"]

eof == [op |-> "eof", parser_label |-> "eof"]

any_char == [op |-> "any_char", parser_label |-> "any_char"]

char(c) == [op |-> "this_char", c |-> c, parser_label |-> "char(" \o c \o ")"]

char_in(chars) ==
    [op |-> "this_char_in", chars |-> chars, parser_label |-> "char_in(" \o Text(chars) \o ")"]

char_not_in(chars) ==
    [op |-> "char_not", chars |-> chars, parser_label |-> "char_not_in(" \o Text(chars) \o ")"]

char_satisfies(pred, description) ==
    [op |-> "good_char", pred |-> pred, description |-> description,
     parser_label |-> "char_satisfies(" \o description \o ")"]

\* pred(token) for the predicates given to char_satisfies.
satisfies(pred, token) ==
    CASE pred = "str.isalpha" -> \A i \in 1..Len(token) : token[i] \in Alphabet
      [] pred = "str.isdigit" -> FALSE
      [] pred = "lambda c: c == 'b'" -> token = <<"b">>

string(s) ==
    [op |-> "this_str", s |-> s, n |-> Len(s),
     parser_label |-> "string(" \o Text(s) \o ", identity)"]

regex(re_in, flags, group) ==
    LET pattern == IF Len(re_in) > 0 /\ re_in[1] = "^" THEN <<re_in[2]>> ELSE re_in
    IN [op |-> "regexP", pattern |-> pattern, flags |-> flags, group |-> group,
        parser_label |-> "regex(/" \o Text(pattern) \o "/" \o ToString(flags)
                          \o "[" \o ToString(group) \o "])"]

\* The functions passed to pipe and fmap, as closures: a name and the
\* captured variables.
seq(p, q) ==
    set_label(pipe(p, [fn |-> "seq_x", q |-> q]),
              "seq(" \o get_label(p) \o ", " \o get_label(q) \o ")")

followedBy(p, q) ==
    set_label(pipe(p, [fn |-> "followedBy_x", q |-> q]),
              "followedBy(" \o get_label(p) \o ", " \o get_label(q) \o ")")

follows(p, q) ==
    set_label(pipe(p, [fn |-> "follows_x", q |-> q]),
              "follows(" \o get_label(p) \o ", " \o get_label(q) \o ")")

between(p, q, r) ==
    set_label(followedBy(follows(p, q), r),
              "between(" \o get_label(p) \o ", " \o get_label(q) \o ", " \o get_label(r) \o ")")

use(p, value) == fmap(p, [fn |-> "const", value |-> value])

chain(ps) ==
    [op |-> "chained", ps |-> ps,
     parser_label |-> "chain(" \o Join([i \in 1..Len(ps) |-> get_label(ps[i])], ", ") \o ")"]

sjoin(ps, sep) ==
    [op |-> "sjoinP", ps |-> ps, sep |-> sep,
     parser_label |-> "sjoin(" \o Join([i \in 1..Len(ps) |-> get_label(ps[i])], ", ") \o ")"]

\* strings(ps, sep) of the Activities variant.
Activities_strings(ps, sep) ==
    [op |-> "stringsP", ps |-> ps, sep |-> sep,
     parser_label |-> "strings(" \o Join([i \in 1..Len(ps) |-> get_label(ps[i])], ", ") \o ")"]

alt(p, q) ==
    LET label == "alt(" \o get_label(p) \o ", " \o get_label(q) \o ")"
    IN [op |-> "alternative", p |-> p, q |-> q, label |-> label, parser_label |-> label]

alts(ps) ==
    [op |-> "alternatives", ps |-> ps,
     parser_label |-> "alts(" \o Join([i \in 1..Len(ps) |-> get_label(ps[i])], ", ") \o ")"]

\* optional, with the alternatives in the wrong order.
optional_swapped(p, default) == set_label(alt(pure(default), p), get_label(p) \o "?")

optional(p, default) == set_label(alt(p, pure(default)), get_label(p) \o "?")

peek(p) == [op |-> "peek_ahead", p |-> p, parser_label |-> "peek(" \o get_label(p) \o ")"]

many(p) == [op |-> "p_star", p |-> p, parser_label |-> get_label(p) \o "*"]

some(p) == [op |-> "p_plus", p |-> p, parser_label |-> get_label(p) \o "+"]

repeated(p, minimum, maximum) ==
    [op |-> "p_rep", p |-> p, minimum |-> minimum, maximum |-> maximum,
     parser_label |-> get_label(p) \o "{" \o ToString(minimum) \o "," \o ToString(maximum) \o "}"]

\* The value None where a parser is expected (interleave's start and end).
NoParser == [op |-> "None", parser_label |-> ""]

interleave(item, sep, end, start, allow_empty) ==
    [op |-> "interleaving", item |-> item, sep |-> sep, end |-> end, start |-> start,
     allow_empty |-> allow_empty,
     parser_label |-> "interleave" \o (IF allow_empty THEN "" ELSE "1") \o "("
                       \o get_label(start) \o " " \o get_label(item) \o " "
                       \o get_label(sep) \o " " \o get_label(end) \o ")"]

\* The variants of src/Activities/parsing/combinators.py.
Activities_some(p) == [op |-> "Activities_p_plus", p |-> p, parser_label |-> get_label(p) \o "+"]

balanced_delimiters(opening, closing, seen_opening) ==
    [op |-> "balancedP", opening |-> opening, closing |-> closing,
     seen_opening |-> seen_opening,
     parser_label |-> "balanced(\"" \o Text(opening) \o "\", \"" \o Text(closing) \o "\")"]

fail_noisily == [op |-> "fail_noisily", parser_label |-> "fail-noisily"]

Activities_regex(re_in, flags, group) ==
    [regex(re_in, flags, group) EXCEPT !.op = "Activities_regexP"]

\* fix: z(u) = f(lambda x: u(u)(x)), and fix(f) = z(z).  The lambda is a
\* parser without a label attribute (get_label's default is "?").
z_lambda(f) == [op |-> "z_lambda", f |-> f, parser_label |-> "?"]

fix_rec(f) == [op |-> "fix_rec", f |-> f, parser_label |-> "?"]

\* fix(rec, base) of the Activities variant.
Activities_fix(rec, base) ==
    [op |-> "Activities_fix_rec", rec |-> rec, base |-> base,
     parser_label |-> "fixed(" \o get_label(base) \o ", f)"]

(***************************************************************************)
(* do-blocks.  A generator function is a name (gen) and the variables it  *)
(* refers to; a generator (an instance made by calling it) is the         *)
(* function, the number of yields executed (at), the values its yields    *)
(* received (locals) and whether it has returned.                         *)
(***************************************************************************)
\* callable(x): parsers are functions, the other values of the model are not.
callable(x) == "op" \in DOMAIN x

\* generator = fn()
instantiate(fn) == [fn |-> fn, at |-> 0, locals |-> <<>>, finished |-> FALSE]

\* @do applied to a generator function: the parser lazily, labelled do(label).
do(fn, label) == [op |-> "lazily", fn |-> fn, parser_label |-> "do(" \o label \o ")"]

\* sexp of test_do (with char('a') for the atoms): it refers to sexp_list,
\* which refers back to sexp when it is resumed.
sexp == alt(char("a"), do([gen |-> "sexp_list"], ""))

yields(p) == [stop |-> FALSE, yielded |-> p]

returns(value) == [stop |-> TRUE, value |-> value]

\* The body of a generator function, from the yield that received the last
\* of the values v to the next yield or to the return statement.
body(fn, v) ==
    CASE fn.gen = "triple" ->
            \* a = yield char_in('ab'); yield char('b'); c = yield char_in('bc')
            \* return (a, c)
            IF Len(v) = 0 THEN yields(char_in(<<"a", "b">>))
            ELSE IF Len(v) = 1 THEN yields(char("b"))
            ELSE IF Len(v) = 2 THEN yields(char_in(<<"b", "c">>))
            ELSE returns(PyTuple(<<v[1], v[3]>>))
      [] fn.gen = "twice" ->
            \* a = yield any_char; b = yield char(a); return (a, b)
            IF Len(v) = 0 THEN yields(any_char)
            ELSE IF Len(v) = 1 THEN yields(char(v[1].v[1]))
            ELSE returns(PyTuple(v))
      [] fn.gen = "sexp_list" ->
            \* return (yield interleave(sexp, char('b'), start=char('c'), end=char('c')))
            IF Len(v) = 0
            THEN yields(interleave(sexp, char("b"), char("c"), char("c"), TRUE))
            ELSE returns(v[1])
      [] fn.gen = "tail" ->
            \* yield char('a'); return string('bc')
            IF Len(v) = 0 THEN yields(char("a"))
            ELSE returns(string(<<"b", "c">>))
      [] fn.gen = "wrapped" ->
            \* x = yield p; yield eof; return x
            \* for a parser p defined outside the generator function
            IF Len(v) = 0 THEN yields(fn.p)
            ELSE IF Len(v) = 1 THEN yields(eof)
            ELSE returns(v[1])
      [] fn.gen = "parens" ->
            \* x = yield char_in('ab')
            \* if x == 'b': inner = yield parens; yield char('c'); return inner
            \* return x
            IF Len(v) = 0 THEN yields(char_in(<<"a", "b">>))
            ELSE IF Len(v) = 1
            THEN IF v[1] = PyStr(<<"b">>) THEN yields(do([gen |-> "parens"], "")) ELSE returns(v[1])
            ELSE IF Len(v) = 2 THEN yields(char("c"))
            ELSE returns(v[2])

\* generator.send(result): the generator runs to its next yield, which
\* gives [stop |-> FALSE, yielded, generator], or to its return, which raises
\* StopIteration: [stop |-> TRUE, value, generator].  The first send starts
\* the generator and its argument is dropped; a finished generator raises
\* StopIteration with value None.
suspended(generator, v, r) ==
    r @@ [generator |-> [generator EXCEPT !.at = @ + 1, !.locals = v, !.finished = r.stop]]

send(generator, result) ==
    IF generator.finished THEN returns(PyNone) @@ [generator |-> generator]
    ELSE LET v == IF generator.at = 0 THEN <<>> ELSE Append(generator.locals, result)
         IN suspended(generator, v, body(generator.fn, v))

\* What a generator that was resumed and gave r does from there on, written
\* with pipe: pure(value) when it returned, pipe(p, v -> ...) when it
\* yielded p.
remainder(r) ==
    IF r.stop THEN pure(r.value)
    ELSE pipe(r.yielded, [fn |-> "rest", generator |-> r.generator])

\* Calling a closure: the functions the engine passes to pipe and fmap, and
\* the builders of recursive parsers (the argument of fix) used by the model.
call(f, x) ==
    CASE f.fn = "seq_x" -> pipe(f.q, [fn |-> "seq_y", x |-> x])
      [] f.fn = "seq_y" -> pure(PyTuple(<<f.x, x>>))
      [] f.fn = "followedBy_x" -> pipe(f.q, [fn |-> "followedBy_y", x |-> x])
      [] f.fn = "followedBy_y" -> pure(f.x)
      [] f.fn = "follows_x" -> pipe(f.q, [fn |-> "pure"])
      [] f.fn = "pure" -> pure(x)
      [] f.fn = "const" -> f.value
      [] f.fn = "join" -> PyStr(str_join(f.sep, x.v))
      [] f.fn = "nested" -> alt(char("a"), between(char("b"), x, char("c")))
      [] f.fn = "right" -> alt(seq(char("a"), x), char("b"))
      [] f.fn = "sexp" -> alt(char("a"), interleave(x, char("b"), char("c"), char("c"), FALSE))
      \* v -> pipe(p, v' -> ...) or v -> pure(value): what a generator does
      \* after a yield received v, written with pipe.
      [] f.fn = "rest" -> remainder(send(f.generator, x))

\* z, passing a parser that does not refer back to z.
z_plain(f) == call(f, void)

z(f) == call(f, z_lambda(f))

fix(f) == z(f)

(***************************************************************************)
(* Applying a parser.  Every matching function returns                     *)
(*   [out |-> the ParseResult, calls |-> the parser invocations it made], *)
(* an invocation being [p |-> parser, state |-> cursor it was applied to].*)
(***************************************************************************)
RECURSIVE Run(_, _)

Ret(out, calls) == [out |-> out, calls |-> calls]

voidP(state) == Ret(Failure("Void parser", state.point, NoData), <<>>)

fails(self, state) == Ret(Failure(self.reason, state.point, NoData), <<>>)

pureP(self, state) == Ret(Success(self.x, state), <<>>)

mapped(self, state) ==
    LET parse_A == Run(self.p, state)
    IN IF parse_A.out.ok
       THEN Ret(Success(call(self.f, parse_A.out.result), parse_A.out.state), parse_A.calls)
       ELSE parse_A

\* piped, running the second parser from the original state.
piped_restart(self, state) ==
    LET parse_A == Run(self.p, state)
    IN IF parse_A.out.ok
       THEN LET parse_B == Run(call(self.f, parse_A.out.result), state)
            IN Ret(parse_B.out, parse_A.calls \o parse_B.calls)
       ELSE parse_A

piped(self, state) ==
    LET parse_A == Run(self.p, state)
    IN IF parse_A.out.ok
       THEN LET parse_B == Run(call(self.f, parse_A.out.result), parse_A.out.state)
            IN Ret(parse_B.out, parse_A.calls \o parse_B.calls)
       ELSE parse_A

eofP(state) ==
    LET more == require(state, 1).enough
    IN IF more THEN Ret(Failure("Expected end of input", state.point, NoData), <<>>)
       ELSE Ret(Success(PyBool(TRUE), state), <<>>)

any_charP(state) ==
    LET r == require(state, 1)
    IN IF r.enough THEN Ret(Success(PyStr(r.view), advance(state, 1)), <<>>)
       ELSE Ret(Failure("Expected a character", state.point, NoData), <<>>)

this_char(self, state) ==
    LET r == require(state, 1)
    IN IF r.enough /\ <<self.c>> = r.view
       THEN Ret(Success(PyStr(<<self.c>>), advance(state, 1)), <<>>)
       ELSE Ret(Failure("Expected character " \o self.c, state.point,
                        [expected |-> PyStr(<<self.c>>)]), <<>>)

this_char_in(self, state) ==
    LET r == require(state, 1)
    IN IF r.enough /\ (\E i \in 1..Len(self.chars) : <<self.chars[i]>> = r.view)
       THEN Ret(Success(PyStr(r.view), advance(state, 1)), <<>>)
       ELSE Ret(Failure("Expected character in [" \o Text(self.chars) \o "]", state.point,
                        [expected |-> PyStr(self.chars)]), <<>>)

char_not(self, state) ==
    LET r == require(state, 1)
    IN IF r.enough /\ ~(\E i \in 1..Len(self.chars) : self.chars[i] = r.view[1])
       THEN Ret(Success(PyStr(r.view), advance(state, 1)), <<>>)
       ELSE Ret(Failure("Expected character not in [" \o Text(self.chars) \o "]",
                        state.point, "not expected" :> PyStr(self.chars)), <<>>)

good_char(self, state) ==
    LET r == require(state, 1)
    IN IF r.enough /\ satisfies(self.pred, r.view)
       THEN Ret(Success(PyStr(r.view), advance(state, 1)), <<>>)
       ELSE Ret(Failure("Expected character satisfying " \o self.description,
                        state.point, NoData), <<>>)

this_str(self, state) ==
    LET r == require(state, self.n)
    IN IF r.enough /\ self.s = r.view
       THEN Ret(Success(PyStr(r.view), advance(state, self.n)), <<>>)
       ELSE Ret(Failure("Expected string " \o Text(self.s), state.point, NoData), <<>>)

regex_failure(self, state) ==
    Failure("Expected match of regex /" \o Text(self.pattern) \o "/ with flags "
              \o ToString(self.flags),
            state.point,
            [pattern |-> PyStr(self.pattern), flags |-> PyInt(self.flags),
             group |-> PyInt(self.group)])

\* m.group(group) raises IndexError when the pattern has no such group.
regexP(self, state) ==
    LET m == re_match(self.pattern, view(state, -1))
    IN IF m.matched
       THEN IF self.group + 1 > Len(m.groups)
            THEN Ret(Raised("IndexError", "no such group"), <<>>)
            ELSE Ret(Success(PyStr(m.groups[self.group + 1]),
                             advance(state, Len(m.groups[1]))), <<>>)
       ELSE Ret(regex_failure(self, state), <<>>)

\* fail_noisily of the Activities variant.
fail_noisilyP(state) == Ret(Raised("ParseError", "Marked failure"), <<>>)

Activities_regexP(self, state) ==
    LET m == re_match(self.pattern, view(state, -1))
    IN IF m.matched
       THEN LET matched == m.groups[self.group + 1]
            IN Ret(Success(PyStr(matched), advance(state, Len(matched))), <<>>)
       ELSE Ret(regex_failure(self, state), <<>>)

\* alternative, evaluating both branches before choosing.
alternative_eager(self, state) ==
    LET parse_A == Run(self.p, state)
        parse_B == Run(self.q, state)
        a == parse_A.out
        b == parse_B.out
    IN IF a.ok
       THEN Ret(a, parse_A.calls \o parse_B.calls)
       ELSE IF failed(b)
       THEN Ret(Failure(self.label \o " failed: " \o a.message \o " and " \o b.message,
                        Max(a.pos, b.pos),
                        merge_data(merge_data(a.data, b.data),
                                   ("failure-positions" :>
                                      PyTuple(<<PyInt(a.pos), PyInt(b.pos)>>)))),
                parse_A.calls \o parse_B.calls)
       ELSE Ret(b, parse_A.calls \o parse_B.calls)

\* alternative, reporting the offset of the last branch instead of the farthest.
alternative_last(self, state) ==
    LET parse_A == Run(self.p, state)
    IN IF parse_A.out.ok
       THEN parse_A
       ELSE LET parse_B == Run(self.q, state)
                a == parse_A.out
                b == parse_B.out
            IN IF failed(b)
               THEN Ret(Failure(self.label \o " failed: " \o a.message \o " and " \o b.message,
                                b.pos,
                                merge_data(merge_data(a.data, b.data),
                                           ("failure-positions" :>
                                              PyTuple(<<PyInt(a.pos), PyInt(b.pos)>>)))),
                        parse_A.calls \o parse_B.calls)
               ELSE Ret(b, parse_A.calls \o parse_B.calls)

alternative(self, state) ==
    LET parse_A == Run(self.p, state)
    IN IF parse_A.out.ok
       THEN parse_A
       ELSE LET parse_B == Run(self.q, state)
                a == parse_A.out
                b == parse_B.out
            IN IF failed(b)
               THEN LET point == Max(a.pos, b.pos)
                        mesg == self.label \o " failed: " \o a.message \o " and " \o b.message
                        data == merge_data(merge_data(a.data, b.data),
                                           ("failure-positions" :>
                                              PyTuple(<<PyInt(a.pos), PyInt(b.pos)>>)))
                    IN Ret(Failure(mesg, point, data), parse_A.calls \o parse_B.calls)
               ELSE Ret(b, parse_A.calls \o parse_B.calls)

\* The for loop of chained, from the i-th parser on.
RECURSIVE chain_loop(_, _, _, _, _)
chain_loop(ps, i, state1, results, calls) ==
    IF i > Len(ps) THEN Ret(Success(PyList(results), state1), calls)
    ELSE LET parsed == Run(ps[i], state1)
         IN IF parsed.out.ok
            THEN chain_loop(ps, i + 1, parsed.out.state, Append(results, parsed.out.result),
                            calls \o parsed.calls)
            ELSE Ret(Failure("chained parsed failed: " \o parsed.out.message,
                             parsed.out.pos, parsed.out.data),
                     calls \o parsed.calls)

\* chained, reporting a failure where the chain started.
chained_at_start(self, state) ==
    LET r == chain_loop(self.ps, 1, state, <<>>, <<>>)
    IN IF r.out.ok THEN r ELSE Ret([r.out EXCEPT !.pos = state.point], r.calls)

chained(self, state) == chain_loop(self.ps, 1, state, <<>>, <<>>)

\* The for loop of sjoinP and of stringsP, from the i-th parser on; it
\* returns the Failure, or the strings in a list with state1.
RECURSIVE sjoin_loop(_, _, _, _, _, _)
sjoin_loop(ps, i, state1, concat, calls, mesg) ==
    IF i > Len(ps) THEN Ret(Success(PyList(concat), state1), calls)
    ELSE LET parsed == Run(ps[i], state1)
         IN IF parsed.out.ok
            THEN sjoin_loop(ps, i + 1, parsed.out.state, Append(concat, parsed.out.result),
                            calls \o parsed.calls, mesg)
            ELSE Ret(Failure(IF mesg = "In sjoin"
                             THEN "In sjoin, " \o get_label(ps[i]) \o " failed: "
                                    \o parsed.out.message
                             ELSE mesg,
                             parsed.out.pos, parsed.out.data),
                     calls \o parsed.calls)

\* The end of sjoinP after its loop returned r.
sjoined(self, r) ==
    IF r.out.ok
    THEN Ret(Success(PyStr(str_join(self.sep, r.out.result.v)), r.out.state), r.calls)
    ELSE r

\* The end of stringsP after its loop returned r: the cursor is moved from
\* the one stringsP received by the length of the joined string.
strings_joined(self, state, r) ==
    IF r.out.ok
    THEN Ret(Success(PyStr(str_join(self.sep, r.out.result.v)),
                     advance(state, Len(str_join(self.sep, r.out.result.v)))),
             r.calls)
    ELSE r

sjoinP(self, state) == sjoined(self, sjoin_loop(self.ps, 1, state, <<>>, <<>>, "In sjoin"))

\* The message of stringsP is not an f-string: the braces are in it as
\* they are written.
stringsP(self, state) ==
    strings_joined(self, state,
                   sjoin_loop(self.ps, 1, state, <<>>, <<>>,
                              "In strings, {get_label(p)} failed: {parsed.message}"))

\* The for loop of alternatives, from the i-th parser on.
RECURSIVE alternatives_loop(_, _, _, _, _, _, _, _)
alternatives_loop(ps, i, state, farthest, data, positions, mesg, calls) ==
    IF i > Len(ps)
    THEN Ret(Failure("All alternatives failed: " \o mesg, farthest,
                     merge_data(data, ("failure-positions" :> PyList(positions)))),
             calls)
    ELSE LET parsed == Run(ps[i], state)
         IN IF parsed.out.ok
            THEN Ret(parsed.out, calls \o parsed.calls)
            ELSE IF parsed.out.pos > farthest
            THEN alternatives_loop(ps, i + 1, state, parsed.out.pos, parsed.out.data,
                                   Append(positions, PyInt(parsed.out.pos)),
                                   parsed.out.message, calls \o parsed.calls)
            ELSE alternatives_loop(ps, i + 1, state, farthest, data,
                                   Append(positions, PyInt(parsed.out.pos)),
                                   mesg, calls \o parsed.calls)

\* alternatives, never updating `farthest`.
alternatives_near(self, state) ==
    LET r == alternatives_loop(self.ps, 1, state, state.point, NoData, <<>>, "", <<>>)
    IN IF r.out.ok THEN r ELSE Ret([r.out EXCEPT !.pos = state.point], r.calls)

alternatives(self, state) ==
    alternatives_loop(self.ps, 1, state, state.point, NoData, <<>>, "", <<>>)

\* peek_ahead, returning the cursor at the start of the parse.
peek_ahead_rewound(self, state) ==
    LET parsed == Run(self.p, state)
    IN IF parsed.out.ok
       THEN Ret(Success(parsed.out.result, ParseState(state.source, state.start, state.start)),
                parsed.calls)
       ELSE parsed

\* peek_ahead: the result of p with the cursor peek_ahead received.
peek_ahead(self, state) ==
    LET parsed == Run(self.p, state)
    IN IF parsed.out.ok
       THEN Ret(Success(parsed.out.result, state), parsed.calls)
       ELSE parsed

\* The while loop of p_star and of p_plus: run p at state1 until it fails.
RECURSIVE star_loop(_, _, _, _)
star_loop(p, state1, results, calls) ==
    LET parsed == Run(p, state1)
    IN IF parsed.out.ok
       THEN star_loop(p, parsed.out.state, Append(results, parsed.out.result),
                      calls \o parsed.calls)
       ELSE Ret(Success(PyList(results), state1), calls \o parsed.calls)

\* p_star, failing when p did not match at all.
p_star_some(self, state) ==
    LET r == star_loop(self.p, state, <<>>, <<>>)
    IN IF r.out.result.v = <<>>
       THEN Ret(Failure("Expected at least one match", state.point, NoData), r.calls)
       ELSE r

p_star(self, state) == star_loop(self.p, state, <<>>, <<>>)

p_plus(self, state) ==
    LET parsed == Run(self.p, state)
    IN IF failed(parsed.out)
       THEN parsed
       ELSE star_loop(self.p, parsed.out.state, <<parsed.out.result>>, parsed.calls)

\* The Activities variant restarts from `state` after the first success.
Activities_p_plus(self, state) ==
    LET parsed == Run(self.p, state)
    IN IF failed(parsed.out)
       THEN parsed
       ELSE star_loop(self.p, state, <<parsed.out.result>>, parsed.calls)

\* The Failure of p_rep with the pos and the data of the attempt that
\* failed.
shortfall_of_attempt(self, state, parsed) ==
    Failure("repeated(" \o get_label(self.p) \o ") parsed fewer than minimum ("
              \o ToString(self.minimum) \o ") items",
            parsed.pos, parsed.data)

\* The Failure of p_rep when p failed (parsed) before the minimum was
\* reached: at the point of the cursor p_rep received, without data.
shortfall(self, state, parsed) ==
    Failure("repeated(" \o get_label(self.p) \o ") parsed fewer than minimum ("
              \o ToString(self.minimum) \o ") items",
            state.point, NoData)

RECURSIVE rep_loop(_, _, _, _, _, _)
rep_loop(self, state, state1, reps, results, calls) ==
    IF reps < self.maximum
    THEN LET parsed == Run(self.p, state1)
         IN IF parsed.out.ok
            THEN rep_loop(self, state, parsed.out.state, reps + 1,
                          Append(results, parsed.out.result), calls \o parsed.calls)
            ELSE IF reps < self.minimum
            THEN Ret(shortfall(self, state, parsed.out), calls \o parsed.calls)
            ELSE Ret(Success(PyList(results), state1), calls \o parsed.calls)
    ELSE Ret(Success(PyList(results), state1), calls)

\* p_rep, with the loop test `reps <= maximum`.
p_rep_inclusive(self, state) ==
    rep_loop([self EXCEPT !.maximum = @ + 1], state, state, 0, <<>>, <<>>)

p_rep(self, state) == rep_loop(self, state, state, 0, <<>>, <<>>)

\* item_state = None
NoState == [source |-> <<>>, point |-> -1, start |-> -1]

\* `state1` where the code has `item_state or state1`.
state_or_latest(item_state, state1) == state1

\* item_state or state1
state_or(item_state, state1) == IF item_state = NoState THEN state1 ELSE item_state

\* What interleaving does after its while loop.
interleaving_end(self, results, item_state, state1, calls) ==
    IF self.end # NoParser
    THEN LET parsed == Run(self.end, state_or(item_state, state1))
         IN IF parsed.out.ok
            THEN Ret(Success(PyList(results), parsed.out.state), calls \o parsed.calls)
            ELSE Ret(parsed.out, calls \o parsed.calls)
    ELSE Ret(Success(PyList(results), state_or(item_state, state1)), calls)

RECURSIVE interleaving_loop(_, _, _, _, _)
interleaving_loop(self, state1, results, item_state, calls) ==
    LET parsed == Run(self.item, state1)
    IN IF parsed.out.ok
       THEN LET next_state == parsed.out.state
                results1 == Append(results, parsed.out.result)
                sepd == Run(self.sep, next_state)
                calls1 == calls \o parsed.calls \o sepd.calls
            IN IF sepd.out.ok
               THEN interleaving_loop(self, sepd.out.state, results1, next_state, calls1)
               ELSE interleaving_end(self, results1, next_state, next_state, calls1)
       ELSE IF item_state = NoState /\ ~self.allow_empty
       THEN Ret(Failure("Expected items (" \o get_label(self.item) \o ") in interleave: "
                          \o parsed.out.message,
                        parsed.out.pos, parsed.out.data),
                calls \o parsed.calls)
       ELSE interleaving_end(self, results, item_state, state1, calls \o parsed.calls)

interleaving(self, state) ==
    IF self.start # NoParser
    THEN LET parsed == Run(self.start, state)
         IN IF parsed.out.ok
            THEN interleaving_loop(self, parsed.out.state, <<>>, NoState, parsed.calls)
            ELSE parsed
    ELSE interleaving_loop(self, state, <<>>, NoState, <<>>)

\* The entry of the log for a resumption of a generator.
resumption(generator) ==
    [op |-> "generator.send", generator |-> generator, parser_label |-> ""]

\* The loop of lazily after generator.send(result) gave r: the parser the
\* generator yielded is run at state1, or it returned and its value is the
\* result (run first if it is a parser).
do_sent(generator, r, state1) ==
    LET sent == <<[p |-> resumption(generator), state |-> state1]>>
    IN IF r.stop
       THEN IF callable(r.value)
            THEN LET parsed == Run(r.value, state1)
                 IN [returned |-> TRUE, out |-> parsed.out, calls |-> sent \o parsed.calls]
            ELSE [returned |-> TRUE, out |-> Success(r.value, state1), calls |-> sent]
       ELSE LET parsed == Run(r.yielded, state1)
            IN IF parsed.out.ok
               THEN [returned |-> FALSE, generator |-> r.generator,
                     result |-> parsed.out.result, state1 |-> parsed.out.state,
                     calls |-> sent \o parsed.calls]
               ELSE [returned |-> TRUE, out |-> parsed.out, calls |-> sent \o parsed.calls]

\* One turn of the loop of lazily, resuming a generator that does not stop
\* at a failure of the parser it yielded.
do_step_on(generator, result, state1) ==
    LET r == send(generator, result)
        sent == <<[p |-> resumption(generator), state |-> state1]>>
    IN IF r.stop
       THEN IF callable(r.value)
            THEN LET parsed == Run(r.value, state1)
                 IN [returned |-> TRUE, out |-> parsed.out, calls |-> sent \o parsed.calls]
            ELSE [returned |-> TRUE, out |-> Success(r.value, state1), calls |-> sent]
       ELSE LET parsed == Run(r.yielded, state1)
            IN IF parsed.out.ok
               THEN [returned |-> FALSE, generator |-> r.generator,
                     result |-> parsed.out.result, state1 |-> parsed.out.state,
                     calls |-> sent \o parsed.calls]
               ELSE [returned |-> FALSE, generator |-> r.generator,
                     result |-> PyNone, state1 |-> state1,
                     calls |-> sent \o parsed.calls]

\* One turn of the loop of lazily: the generator is resumed with the last
\* result; the parser it yields is run at state1, or it returns and its
\* value is the result (run first if it is a parser).
do_step(generator, result, state1) ==
    do_sent(generator, send(generator, result), state1)

RECURSIVE do_loop(_, _, _, _)

\* The loop of lazily after one of its turns: it returns, or it goes round
\* again with what the turn left.
do_turned(turned, calls) ==
    IF turned.returned THEN Ret(turned.out, calls \o turned.calls)
    ELSE do_loop(turned.generator, turned.result, turned.state1, calls \o turned.calls)

do_loop(generator, result, state1, calls) ==
    do_turned(do_step(generator, result, state1), calls)

\* lazily, returning the value with the cursor it received.
lazily_unmoved(self, state) ==
    LET r == do_loop(instantiate(self.fn), PyNone, state, <<>>)
    IN IF r.out.ok THEN Ret(Success(r.out.result, state), r.calls) ELSE r

lazily(self, state) == do_loop(instantiate(self.fn), PyNone, state, <<>>)

\* tokens[index:].startswith(prefix), index counted from 0.
startswith(tokens, index, prefix) ==
    /\ index + Len(prefix) <= Len(tokens)
    /\ SubSeq(tokens, index + 1, index + Len(prefix)) = prefix

\* The while loop of balancedP; it returns [index, count, positions].
RECURSIVE balanced_loop(_, _, _, _, _, _)
balanced_loop(self, tokens, point, index, count, positions) ==
    IF count > 0 /\ point + index < Len(tokens)
    THEN IF startswith(tokens, index, self.opening)
         THEN balanced_loop(self, tokens, point, index + Len(self.opening), count + 1,
                            Append(positions, PyInt(index)))
         ELSE IF startswith(tokens, index, self.closing)
         THEN balanced_loop(self, tokens, point, index + Len(self.closing), count - 1,
                            Append(positions, PyInt(0 - index)))
         ELSE balanced_loop(self, tokens, point, index + 1, count, positions)
    ELSE [index |-> index, count |-> count, positions |-> positions]

balancedP(self, state) ==
    LET tokens == view(state, -1)
        point == state.point
        n == Len(tokens)
        len_open == Len(self.opening)
        len_close == Len(self.closing)
        expected == "Expected balanced delimiters " \o Text(self.opening) \o ".."
                      \o Text(self.closing)
    IN IF n < (IF self.seen_opening THEN len_close ELSE len_close + len_open)
       THEN Ret(Failure(expected \o ": insufficient input.", point, NoData), <<>>)
       ELSE IF ~self.seen_opening /\ ~startswith(tokens, 0, self.opening)
       THEN Ret(Failure(expected \o ": missing " \o Text(self.opening) \o ".", point,
                        NoData), <<>>)
       ELSE LET end == balanced_loop(self, tokens, point,
                                     IF self.seen_opening THEN 0 ELSE len_open, 1,
                                     IF self.seen_opening THEN <<>> ELSE <<PyInt(0)>>)
            IN IF end.count # 0
               THEN Ret(Failure(expected, point, NoData), <<>>)
               ELSE Ret(Success(PyTuple(<<PyStr(SubSeq(tokens, 1, end.index)),
                                          PyList(end.positions)>>),
                                advance(state, end.index)), <<>>)

\* lambda x: u(u)(x) with u = z
z_lambdaP(self, state) == Run(z(self.f), state)

\* lambda x: f(fix_rec(f))(x)
fix_recP(self, state) == Run(call(self.f, fix_rec(self.f)), state)

\* The nested calls of fix_rec the interpreter allows; one more raises
\* RecursionError (sys.getrecursionlimit() frames in CPython).
RecursionLimit == 8

\* fix_rec of the Activities variant at the given depth of nested calls of
\* fix_rec: base is tried, and when it fails fix(rec, rec(base)) is built
\* and called at the same cursor.
RECURSIVE Activities_fix_loop(_, _, _, _)
Activities_fix_loop(rec, base, state, depth) ==
    IF depth > RecursionLimit
    THEN Ret(Raised("RecursionError", "maximum recursion depth exceeded"), <<>>)
    ELSE LET parsed == Run(base, state)
         IN IF failed(parsed.out)
            THEN LET p == Activities_fix(rec, call(rec, base))
                     deeper == Activities_fix_loop(rec, p.base, state, depth + 1)
                 IN Ret(deeper.out,
                        parsed.calls \o <<[p |-> p, state |-> state]>> \o deeper.calls)
            ELSE parsed

Activities_fix_rec(self, state) == Activities_fix_loop(self.rec, self.base, state, 1)

Apply(p, state) ==
    CASE p.op = "void" -> voidP(state)
      [] p.op = "fails" -> fails(p, state)
      [] p.op = "pureP" -> pureP(p, state)
      [] p.op = "mapped" -> mapped(p, state)
      [] p.op = "piped" -> piped(p, state)
      [] p.op = "eof" -> eofP(state)
      [] p.op = "any_char" -> any_charP(state)
      [] p.op = "this_char" -> this_char(p, state)
      [] p.op = "this_char_in" -> this_char_in(p, state)
      [] p.op = "this_str" -> this_str(p, state)
      [] p.op = "char_not" -> char_not(p, state)
      [] p.op = "good_char" -> good_char(p, state)
      [] p.op = "regexP" -> regexP(p, state)
      [] p.op = "fail_noisily" -> fail_noisilyP(state)
      [] p.op = "balancedP" -> balancedP(p, state)
      [] p.op = "Activities_regexP" -> Activities_regexP(p, state)
      [] p.op = "chained" -> chained(p, state)
      [] p.op = "sjoinP" -> sjoinP(p, state)
      [] p.op = "stringsP" -> stringsP(p, state)
      [] p.op = "alternative" -> alternative(p, state)
      [] p.op = "alternatives" -> alternatives(p, state)
      [] p.op = "peek_ahead" -> peek_ahead(p, state)
      [] p.op = "p_star" -> p_star(p, state)
      [] p.op = "p_plus" -> p_plus(p, state)
      [] p.op = "Activities_p_plus" -> Activities_p_plus(p, state)
      [] p.op = "p_rep" -> p_rep(p, state)
      [] p.op = "interleaving" -> interleaving(p, state)
      [] p.op = "lazily" -> lazily(p, state)
      [] p.op = "z_lambda" -> z_lambdaP(p, state)
      [] p.op = "fix_rec" -> fix_recP(p, state)
      [] p.op = "Activities_fix_rec" -> Activities_fix_rec(p, state)

\* The invocation p(state) whose matching function returned r.
invoked(p, state, r) == Ret(r.out, <<[p |-> p, state |-> state]>> \o r.calls)

\* p(state): the invocation is recorded, then the matching function runs.
Run(p, state) == invoked(p, state, Apply(p, state))

parse(tokens, p, start) == Run(p, ParseState(tokens, start, -1))

(***************************************************************************)
(* lazily, one turn of its loop at a time, for parse runs that are in     *)
(* progress together.  The generators alive are kept in a list and are    *)
(* referred to by their index in it; an invocation of lazily is a frame   *)
(* [generator, state1, result] on the stack of its parse run.             *)
(***************************************************************************)
\* generator = fn(), with one generator kept for each generator function.
new_generator_shared(generators, fn) ==
    IF \E i \in 1..Len(generators) : generators[i].fn = fn
    THEN [id |-> CHOOSE i \in 1..Len(generators) : generators[i].fn = fn,
          generators |-> generators]
    ELSE [id |-> Len(generators) + 1, generators |-> Append(generators, instantiate(fn))]

\* generator = fn(): calling the generator function makes a new generator.
new_generator(generators, fn) ==
    [id |-> Len(generators) + 1, generators |-> Append(generators, instantiate(fn))]

\* lazily(state) is entered: its local variables.
entered(id, state) == [generator |-> id, state1 |-> state, result |-> PyNone]

\* match p(state1): the invocation on top of the stack receives the result
\* of the parser it ran.  A Success is kept and the loop goes on; a Failure
\* is returned to the caller, which is the invocation below, or parse when
\* there is none.
RECURSIVE matched(_, _)
matched(frames, parsed) ==
    LET n == Len(frames)
    IN IF n = 0 THEN [frames |-> <<>>, returned |-> TRUE, out |-> parsed]
       ELSE IF parsed.ok
       THEN [frames |-> [frames EXCEPT ![n].result = parsed.result,
                                        ![n].state1 = parsed.state],
             returned |-> FALSE, out |-> parsed]
       ELSE matched(SubSeq(frames, 1, n - 1), parsed)

\* The loop of the invocation on top of the stack after its generator was
\* resumed and gave r.
turn_sent(generators, frames, r) ==
    LET n == Len(frames)
        top == frames[n]
        resumed == [generators EXCEPT ![top.generator] = r.generator]
    IN IF r.stop
       THEN LET parsed == IF callable(r.value) THEN Run(r.value, top.state1).out
                          ELSE Success(r.value, top.state1)
            IN matched(SubSeq(frames, 1, n - 1), parsed) @@ [generators |-> resumed]
       ELSE IF r.yielded.op = "lazily"
       THEN LET new == new_generator(resumed, r.yielded.fn)
            IN [frames |-> Append(frames, entered(new.id, top.state1)),
                returned |-> FALSE, out |-> Success(PyNone, top.state1),
                generators |-> new.generators]
       ELSE matched(frames, Run(r.yielded, top.state1).out) @@ [generators |-> resumed]

\* One turn of the loop of the invocation on top of the stack.
turn(generators, frames) ==
    turn_sent(generators, frames,
              send(generators[frames[Len(frames)].generator], frames[Len(frames)].result))

(***************************************************************************)
(* The state machine: a caller holds an input text, builds a parser with  *)
(* one of the combinators and calls parse(source, parser, start); the      *)
(* result and the invocations made are kept until the caller returns.     *)
(***************************************************************************)
VARIABLES source, pc, req, out, calls, generators, parses, heap, locals

vars == <<source, pc, req, out, calls, generators, parses, heap, locals>>

MaxStart == 1

MaxReps == 3

Inputs == UNION {[1..n -> Alphabet] : n \in 0..MaxLen}

Starts == 0..MaxStart

\* The parsers the combinators are applied to.
Sub ==
    {char("a"), char("b"), char_in(<<"b", "c">>), string(<<"a", "b">>),
     seq(char("a"), char("b")), seq(char("a"), eof), pure(PyStr(<<"z">>)),
     regex(<<"a", "+", "c">>, NOFLAG, 0)}

\* Parsers that consume input whenever they succeed.
Consuming ==
    {char("a"), char_in(<<"a", "b">>), string(<<"a", "b">>), seq(char("a"), char("b")),
     followedBy(char("a"), char_in(<<"b", "c">>))}

Few == {char("a"), string(<<"a", "b">>), seq(char("a"), char("b")), char_in(<<"b", "c">>)}

Defaults == {PyNone, PyStr(<<"z">>)}

Patterns ==
    {<<"a", "b">>, <<"a", "+">>, <<"(", "a", ")", "b", "+">>, <<"a", "(", "b", "+", ")", "c">>,
     <<"(", "a", "+", ")", "(", "b", ")">>}

\* The capture groups of a pattern: 0 and one per opening parenthesis.
Groups(pattern) == 0..Cardinality({i \in 1..Len(pattern) : pattern[i] = "("})

Builders == {[fn |-> "nested"], [fn |-> "right"], [fn |-> "sexp"]}

None == [op |-> "none"]

\* The parse runs that may be in progress together.
Runs == {"first", "second"}

\* A parse run: the cursor parse was called with, the stack of invocations
\* of lazily, the result once parse has returned; and, of its history, the
\* generators it made and whether it began after the other run returned.
Idle ==
    [status |-> "idle", state |-> NoState, frames |-> <<>>, out |-> None,
     made |-> <<>>, after |-> FALSE]

Init ==
    /\ source \in Inputs
    /\ pc = "ready"
    /\ req = None
    /\ out = None
    /\ calls = <<>>
    /\ generators = <<>>
    /\ parses = [r \in Runs |-> Idle]
    /\ heap = <<>>
    /\ locals = None

\* parse(source, p, start) returned r: the caller keeps it.
Parsed(how, p, state, r) ==
    /\ pc' = "done"
    /\ req' = how @@ [parser |-> p, state |-> state]
    /\ out' = r.out
    /\ calls' = r.calls
    /\ UNCHANGED <<source, generators, parses, heap, locals>>

\* The effect of parse(source, p, start); `how` records how p was built.
DoParse(how, p, start) ==
    Parsed(how, p, ParseState(source, start, -1), parse(source, p, start))

\* The parsers a chain is made of.
Links == {char("a"), char_in(<<"b", "c">>), string(<<"a", "b">>), regex(<<"b", "+">>, NOFLAG, 0)}

ParseChain ==
    \E n \in 0..3 : \E ps \in [1..n -> Links] : \E k \in Starts :
        /\ pc = "ready"
        /\ DoParse([op |-> "chain", ps |-> ps], chain(ps), k)

\* Parsers of strings; the value of the regex is its group 1, shorter than
\* what it consumes.
Strs ==
    {char("a"), string(<<"a", "b">>), char_in(<<"b", "c">>),
     regex(<<"a", "(", "b", "+", ")", "c">>, NOFLAG, 1)}

Separators == {<<>>, <<",">>}

ParseSjoin ==
    \E n \in 0..2 : \E ps \in [1..n -> Strs] : \E sep \in Separators, k \in Starts :
        /\ pc = "ready"
        /\ DoParse([op |-> "sjoin", ps |-> ps, sep |-> sep], sjoin(ps, sep), k)

ParseActivitiesStrings ==
    \E n \in 0..2 : \E ps \in [1..n -> Strs] : \E sep \in Separators, k \in Starts :
        /\ pc = "ready"
        /\ DoParse([op |-> "Activities_strings", ps |-> ps, sep |-> sep],
                   Activities_strings(ps, sep), k)

\* p, then a look ahead for q.
ParsePeek ==
    \E p \in Sub, q \in Sub, k \in Starts :
        /\ pc = "ready"
        /\ DoParse([op |-> "peek", p |-> p, q |-> q], seq(p, peek(q)), k)

ParseAlt ==
    \E p \in Sub, q \in Sub, k \in Starts :
        /\ pc = "ready"
        /\ DoParse([op |-> "alt", p |-> p, q |-> q], alt(p, q), k)

ParseAlts ==
    \E n \in 0..3 : \E ps \in [1..n -> Few] : \E k \in Starts :
        /\ pc = "ready"
        /\ DoParse([op |-> "alts", ps |-> ps], alts(ps), k)

ParseOptional ==
    \E p \in Sub, d \in Defaults, k \in Starts :
        /\ pc = "ready"
        /\ DoParse([op |-> "optional", p |-> p, default |-> d], optional(p, d), k)

ParseRepeated ==
    \E p \in Consuming, m \in 0..MaxReps, n \in 0..MaxReps, k \in Starts :
        /\ pc = "ready"
        /\ m <= n
        /\ DoParse([op |-> "repeated", p |-> p, minimum |-> m, maximum |-> n],
                   repeated(p, m, n), k)

ParseMany ==
    \E p \in Consuming, k \in Starts :
        /\ pc = "ready"
        /\ DoParse([op |-> "many", p |-> p], many(p), k)

ParseSome ==
    \E p \in Consuming, k \in Starts :
        /\ pc = "ready"
        /\ DoParse([op |-> "some", p |-> p], some(p), k)

ParseActivitiesSome ==
    \E p \in Consuming, k \in Starts :
        /\ pc = "ready"
        /\ DoParse([op |-> "Activities_some", p |-> p], Activities_some(p), k)

Items == {char("a"), seq(char("a"), char("a"))}

Seps == {char("b"), char("c")}

Opens == {NoParser, char("c")}

Closes == {NoParser, char("c"), char("b")}

ParseInterleave ==
    \E item \in Items, sep \in Seps, start \in Opens, end \in Closes,
       allow_empty \in BOOLEAN, k \in Starts :
        /\ pc = "ready"
        /\ DoParse([op |-> "interleave", item |-> item, sep |-> sep, start |-> start,
                    end |-> end, allow_empty |-> allow_empty],
                   interleave(item, sep, end, start, allow_empty), k)

ParseRegex ==
    \E pattern \in Patterns, k \in Starts : \E g \in Groups(pattern) :
        /\ pc = "ready"
        /\ DoParse([op |-> "regex", pattern |-> pattern, group |-> g],
                   regex(pattern, NOFLAG, g), k)

\* Patterns that begin with a literal character, to be given with a
\* leading '^'.
Anchorable == {<<"a">>, <<"a", "b">>, <<"a", "+">>, <<"b", "+", "c">>, <<"a", "(", "b", "+", ")", "c">>}

ParseAnchoredRegex ==
    \E pattern \in Anchorable, k \in Starts :
        /\ pc = "ready"
        /\ DoParse([op |-> "anchored_regex", pattern |-> pattern],
                   regex(<<"^">> \o pattern, NOFLAG, 0), k)

ParseActivitiesAnchoredRegex ==
    \E pattern \in Anchorable, k \in Starts :
        /\ pc = "ready"
        /\ DoParse([op |-> "Activities_anchored_regex", pattern |-> pattern],
                   Activities_regex(<<"^">> \o pattern, NOFLAG, 0), k)

ParseActivitiesRegex ==
    \E pattern \in Patterns, k \in Starts : \E g \in Groups(pattern) :
        /\ pc = "ready"
        /\ DoParse([op |-> "Activities_regex", pattern |-> pattern, group |-> g],
                   Activities_regex(pattern, NOFLAG, g), k)

\* The integers a cursor is built from, the start marks given to it (-1 is
\* the default) and the amounts it is advanced by.
Points == (0 - MaxLen - 1)..(MaxLen + 1)

Marks == {-1} \cup Starts

Amounts == 0..(MaxLen + 1)

\* ParseState(source, point, start)
NewParseState ==
    \E point \in Points, start \in Marks :
        /\ pc = "ready"
        /\ pc' = "done"
        /\ req' = [op |-> "ParseState", point |-> point, start |-> start]
        /\ out' = ParseState(source, point, start)
        /\ UNCHANGED <<source, calls, generators, parses, heap, locals>>

\* state.advance(by) for a cursor built by the constructor
AdvanceState ==
    \E point \in Points, start \in Marks, by \in Amounts :
        /\ pc = "ready"
        /\ pc' = "done"
        /\ req' = [op |-> "advance", state |-> ParseState(source, point, start), by |-> by]
        /\ out' = advance(ParseState(source, point, start), by)
        /\ UNCHANGED <<source, calls, generators, parses, heap, locals>>

\* state.require(size)
Require ==
    \E point \in Points, size \in Amounts :
        /\ pc = "ready"
        /\ pc' = "done"
        /\ req' = [op |-> "require", state |-> ParseState(source, point, -1), size |-> size]
        /\ out' = require(ParseState(source, point, -1), size)
        /\ UNCHANGED <<source, calls, generators, parses, heap, locals>>

\* The parsers of one or more items.
Chars ==
    {any_char, char("a"), char_in(<<"a", "b">>), char_not_in(<<"a", "b">>),
     char_satisfies("str.isalpha", "predicate"), char_satisfies("str.isdigit", "predicate"),
     char_satisfies("lambda c: c == 'b'", "predicate"),
     string(<<>>), string(<<"a", "b">>), string(<<"a", "b", "c">>)}

ParsePrimitive ==
    \E p \in Chars, k \in Amounts :
        /\ pc = "ready"
        /\ DoParse([op |-> "primitive"], p, k)

\* Pairs of distinct delimiters.
Delimiters == {<<"b", "c">>, <<"a", "c">>, <<"c", "a">>}

ParseBalanced ==
    \E d \in Delimiters, k \in Starts :
        /\ pc = "ready"
        /\ DoParse([op |-> "balanced", opening |-> d[1], closing |-> d[2]],
                   balanced_delimiters(<<d[1]>>, <<d[2]>>, FALSE), k)

\* balanced_delimiters for a text whose opening delimiter was seen before.
ParseBalancedSeen ==
    \E d \in Delimiters, k \in Starts :
        /\ pc = "ready"
        /\ DoParse([op |-> "balanced_seen", opening |-> d[1], closing |-> d[2]],
                   balanced_delimiters(<<d[1]>>, <<d[2]>>, TRUE), k)

\* regex with any group number, the first the pattern does not have included.
ParseRegexGroup ==
    \E pattern \in Patterns, k \in Starts :
        \E g \in Groups(pattern) \cup {Cardinality(Groups(pattern))} :
            /\ pc = "ready"
            /\ DoParse([op |-> "regex_group", pattern |-> pattern, group |-> g],
                       regex(pattern, NOFLAG, g), k)

ParseFailNoisily ==
    \E k \in Starts :
        /\ pc = "ready"
        /\ DoParse([op |-> "fail_noisily"], fail_noisily, k)

ParseSeq ==
    \E p \in Sub, q \in Sub, k \in Starts :
        /\ pc = "ready"
        /\ DoParse([op |-> "seq", p |-> p, q |-> q], seq(p, q), k)

\* An alternation followed by another parser.
ParseSeqAlt ==
    \E p \in Few, q \in Few, r \in Few, k \in Starts :
        /\ pc = "ready"
        /\ DoParse([op |-> "seq_alt", p |-> p, q |-> q, r |-> r], seq(alt(p, q), r), k)

ParseFix ==
    \E f \in Builders, k \in Starts :
        /\ pc = "ready"
        /\ DoParse([op |-> "fix", f |-> f], fix(f), k)

ParseFixRec ==
    \E f \in Builders, k \in Starts :
        /\ pc = "ready"
        /\ DoParse([op |-> "fix_rec", f |-> f], fix_rec(f), k)

ParseActivitiesFix ==
    \E f \in Builders, k \in Starts :
        /\ pc = "ready"
        /\ DoParse([op |-> "Activities_fix", f |-> f], Activities_fix(f, void), k)

\* The generator functions given to do.
Generators ==
    {[gen |-> "triple"], [gen |-> "twice"], [gen |-> "sexp_list"], [gen |-> "tail"],
     [gen |-> "parens"], [gen |-> "wrapped", p |-> fix([fn |-> "nested"])]}

ParseDo ==
    \E fn \in Generators, k \in Starts :
        /\ pc = "ready"
        /\ DoParse([op |-> "do", fn |-> fn], do(fn, ""), k)

\* parse(source, p, k) is called for a do-block p and enters lazily; the
\* second run is given the parser of the first.
ParseBegin ==
    \E fn \in Generators, k \in Starts :
        LET p == do(fn, "")
            state == ParseState(source, k, -1)
            new == new_generator(generators, fn)
        IN /\ \/ pc = "ready" /\ parses["second"].status = "idle"
              \/ pc = "running" /\ req.parser = p /\ parses["first"].status # "idle"
           /\ \E r \in Runs :
                /\ parses[r].status = "idle"
                /\ r = "second" => parses["first"].status # "idle"
                /\ parses' = [parses EXCEPT ![r] =
                              [status |-> "running", state |-> state,
                               frames |-> <<entered(new.id, state)>>, out |-> None,
                               made |-> <<new.id>>,
                               after |-> r = "second" /\ parses["first"].status = "returned"]]
           /\ generators' = new.generators
           /\ pc' = "running"
           /\ req' = [op |-> "runs", parser |-> p]
           /\ UNCHANGED <<source, out, calls, heap, locals>>

\* The loop of lazily of parse run r made the turn t.
Turned(r, t) ==
    /\ generators' = t.generators
    /\ parses' = [parses EXCEPT
                  ![r].status = IF t.returned THEN "returned" ELSE "running",
                  ![r].frames = t.frames,
                  ![r].out = IF t.returned THEN t.out ELSE None,
                  ![r].made = IF Len(t.generators) > Len(generators)
                              THEN Append(@, Len(t.generators)) ELSE @]

\* A run in progress takes one turn of the loop of lazily.
ParseTurn ==
    \E r \in Runs :
        /\ pc = "running"
        /\ parses[r].status = "running"
        /\ Turned(r, turn(generators, parses[r].frames))
        /\ UNCHANGED <<source, pc, req, out, calls, heap, locals>>

\* The callers have their results.
ParseEnd ==
    /\ pc = "running"
    /\ \A r \in Runs : parses[r].status # "running"
    /\ pc' = "ready"
    /\ req' = None
    /\ generators' = <<>>
    /\ parses' = [r \in Runs |-> Idle]
    /\ UNCHANGED <<source, out, calls, heap, locals>>

Return ==
    /\ pc = "done"
    /\ pc' = "ready"
    /\ req' = None
    /\ out' = None
    /\ calls' = <<>>
    /\ UNCHANGED <<source, generators, parses, heap, locals>>

Next ==
    \/ ParseAlt
    \/ ParseAlts
    \/ ParsePeek
    \/ ParseOptional
    \/ ParseRepeated
    \/ ParseMany
    \/ ParseSome
    \/ ParseActivitiesSome
    \/ ParseInterleave
    \/ ParseRegex
    \/ ParseActivitiesRegex
    \/ ParseAnchoredRegex
    \/ ParseActivitiesAnchoredRegex
    \/ ParseBalanced
    \/ ParseBalancedSeen
    \/ NewParseState
    \/ Require
    \/ ParsePrimitive
    \/ AdvanceState
    \/ ParseRegexGroup
    \/ ParseFailNoisily
    \/ ParseSeq
    \/ ParseChain
    \/ ParseSjoin
    \/ ParseActivitiesStrings
    \/ ParseSeqAlt
    \/ ParseFix
    \/ ParseFixRec
    \/ ParseActivitiesFix
    \/ ParseDo
    \/ ParseBegin
    \/ ParseTurn
    \/ ParseEnd
    \/ Return

Spec == Init /\ [][Next]_vars

(***************************************************************************)
(* Parsers and cursors as objects.  The heap lists the objects a caller   *)
(* holds, in the order they were made; an object is referred to by its    *)
(* index.  A parser object is the function together with its parser_label *)
(* attribute, a cursor object is a ParseState.                            *)
(***************************************************************************)
MaxObjects == 3

\* The texts parsed by the caller that builds parsers.
Texts == {<<>>, <<"a">>, <<"a", "b">>, <<"b", "a", "b">>}

Primitives == {char("a"), string(<<"a", "b">>)}

is_parser(object) == "op" \in DOMAIN object

\* setattr(parser, 'parser_label', label) on the object `id`.
setattr_label(objects, id, label) == [objects EXCEPT ![id] = set_label(@, label)]

\* seq(p, q): sequenced = pipe(...) is a new object, and parser(sequenced,
\* label) sets its label.
new_seq(objects, p, q) ==
    LET sequenced == Len(objects) + 1
        made == Append(objects, pipe(objects[p], [fn |-> "seq_x", q |-> objects[q]]))
    IN setattr_label(made, sequenced,
                     "seq(" \o get_label(objects[p]) \o ", " \o get_label(objects[q]) \o ")")

\* optional, setting the label on p.
new_optional_relabelling(objects, p, default) ==
    LET made == Append(objects, alt(objects[p], pure(default)))
    IN setattr_label(made, p, get_label(objects[p]) \o "?")

\* optional(p, default): opt = alt(p, pure(default)) is a new object, and
\* parser(opt, label) sets its label.
new_optional(objects, p, default) ==
    LET opt == Len(objects) + 1
        made == Append(objects, alt(objects[p], pure(default)))
    IN setattr_label(made, opt, get_label(objects[p]) \o "?")

\* state.advance(by) returns the receiver when by is 0, else a new cursor.
new_advance(objects, state, by) ==
    IF by = 0 THEN objects ELSE Append(objects, advance(objects[state], by))

InitBuilding ==
    /\ source \in Texts
    /\ pc = "ready"
    /\ req = None
    /\ out = None
    /\ calls = <<>>
    /\ generators = <<>>
    /\ parses = [r \in Runs |-> Idle]
    /\ heap = <<>>
    /\ locals = None

Make(objects) ==
    /\ pc = "ready"
    /\ Len(heap) < MaxObjects
    /\ heap' = objects
    /\ UNCHANGED <<source, pc, req, out, calls, generators, parses, locals>>

DefinePrimitive == \E p \in Primitives : Make(Append(heap, p))

NewState == \E k \in Starts : Make(Append(heap, ParseState(source, k, -1)))

BuildSeq ==
    \E p \in 1..Len(heap), q \in 1..Len(heap) :
        /\ is_parser(heap[p]) /\ is_parser(heap[q])
        /\ Make(new_seq(heap, p, q))

BuildOptional ==
    \E p \in 1..Len(heap), d \in Defaults :
        /\ is_parser(heap[p])
        /\ Make(new_optional(heap, p, d))

BuildAlt ==
    \E p \in 1..Len(heap), q \in 1..Len(heap) :
        /\ is_parser(heap[p]) /\ is_parser(heap[q])
        /\ Make(Append(heap, alt(heap[p], heap[q])))

Advance ==
    \E state \in 1..Len(heap), by \in Starts :
        /\ ~is_parser(heap[state])
        /\ Make(new_advance(heap, state, by))

\* p(state) for a parser object and a cursor object.
ApplyObject ==
    \E p \in 1..Len(heap), state \in 1..Len(heap) :
        /\ pc = "ready"
        /\ is_parser(heap[p]) /\ ~is_parser(heap[state])
        /\ LET r == Run(heap[p], heap[state])
           IN /\ pc' = "done"
              /\ req' = [op |-> "apply", p |-> p, state |-> state]
              /\ out' = r.out
              /\ calls' = r.calls
        /\ UNCHANGED <<source, generators, parses, heap, locals>>

NextBuilding ==
    \/ DefinePrimitive
    \/ NewState
    \/ BuildSeq
    \/ BuildOptional
    \/ BuildAlt
    \/ Advance
    \/ ApplyObject
    \/ Return

Building == InitBuilding /\ [][NextBuilding]_vars

(***************************************************************************)
(* The loop of many, one turn at a time.  p_star is `while True` around   *)
(* one call of p; its local variables are results and state1.  A loop     *)
(* that is running takes its next turn (weak fairness); the list of       *)
(* results is capped at MaxTurns, more than any loop that consumes input  *)
(* can collect, so that a loop that does not end has finitely many states.*)
(***************************************************************************)
MaxTurns == MaxLen + 2

\* The parsers many is applied to: those of Consuming, and parsers that
\* succeed without consuming input at some or at every cursor.
Repeatable ==
    Consuming \cup {pure(PyStr(<<"z">>)), optional(char("b"), PyNone),
                    alt(char("a"), eof), many(char("a"))}

\* One turn of the loop after p(state1) returned parsed.
star_ran(variables, parsed) ==
    IF parsed.out.ok
    THEN [returned |-> FALSE, results |-> Append(variables.results, parsed.out.result),
          state1 |-> parsed.out.state, calls |-> parsed.calls]
    ELSE [returned |-> TRUE, results |-> variables.results, state1 |-> variables.state1,
          calls |-> parsed.calls]

\* One turn of the loop that leaves state1 where it was.
star_turn_unmoved(p, variables) ==
    [star_ran(variables, Run(p, variables.state1)) EXCEPT !.state1 = variables.state1]

\* One turn of the loop of p_star.
star_turn(p, variables) == star_ran(variables, Run(p, variables.state1))

InitLooping ==
    /\ source \in Inputs
    /\ pc = "ready"
    /\ req = None
    /\ out = None
    /\ calls = <<>>
    /\ generators = <<>>
    /\ parses = [r \in Runs |-> Idle]
    /\ heap = <<>>
    /\ locals = None

\* parse(source, many(p), k) enters p_star: results = [], state1 = state.
ManyBegin ==
    \E p \in Repeatable, k \in Starts :
        /\ pc = "ready"
        /\ pc' = "looping"
        /\ req' = [op |-> "p_star", p |-> p, parser |-> many(p),
                   state |-> ParseState(source, k, -1)]
        /\ locals' = [results |-> <<>>, state1 |-> ParseState(source, k, -1)]
        /\ calls' = <<[p |-> many(p), state |-> ParseState(source, k, -1)]>>
        /\ UNCHANGED <<source, out, generators, parses, heap>>

\* The loop took the turn t: it goes on with the new results and state1, or
\* p failed and p_star returns Success(results, state1).
ManyTurned(t) ==
    /\ pc' = IF t.returned THEN "done" ELSE "looping"
    /\ locals' = [results |-> t.results, state1 |-> t.state1]
    /\ out' = IF t.returned THEN Success(PyList(t.results), t.state1) ELSE out
    /\ calls' = calls \o t.calls
    /\ UNCHANGED <<source, req, generators, parses, heap>>

ManyTurn ==
    /\ pc = "looping"
    /\ Len(locals.results) < MaxTurns
    /\ ManyTurned(star_turn(req.p, locals))

\* The caller has its result.
ManyReturn ==
    /\ pc = "done"
    /\ pc' = "ready"
    /\ req' = None
    /\ out' = None
    /\ calls' = <<>>
    /\ locals' = None
    /\ UNCHANGED <<source, generators, parses, heap>>

NextLooping ==
    \/ ManyBegin
    \/ ManyTurn
    \/ ManyReturn

\* Weak fairness of ManyTurn, WF_vars(ManyTurn), written out: a turn always
\* adds to calls, so ENABLED <<ManyTurn>>_vars is the guard of ManyTurn.
ManyTurnFairness ==
    \/ []<>(~(pc = "looping" /\ Len(locals.results) < MaxTurns))
    \/ []<><<ManyTurn>>_vars

Looping == InitLooping /\ [][NextLooping]_vars /\ ManyTurnFairness

(***************************************************************************)
(* Properties                                                              *)
(***************************************************************************)
Done(op) == pc = "done" /\ req.op = op

\* The invocation that parse itself makes.
Top == <<[p |-> req.parser, state |-> req.state]>>

\* The concatenation of a sequence of sequences.
RECURSIVE Flatten(_)
Flatten(ss) == IF ss = <<>> THEN <<>> ELSE Head(ss) \o Flatten(Tail(ss))

RECURSIVE MaxOf(_)
MaxOf(ns) == IF Len(ns) = 1 THEN ns[1] ELSE Max(ns[1], MaxOf(Tail(ns)))

\* C1: when p fails at cursor c at offset a and q fails at c at offset b,
\* alt(p, q) applied to c returns a Failure whose pos is max(a, b).
AltFarthestFailure ==
    Done("alt") =>
        LET a == Run(req.p, req.state).out
            b == Run(req.q, req.state).out
        IN (failed(a) /\ failed(b)) => (failed(out) /\ out.pos = Max(a.pos, b.pos))

\* Both branches fail and the first one got farther than the second.
AltFarthestWitness ==
    /\ Done("alt")
    /\ failed(out)
    /\ Run(req.p, req.state).out.pos > Run(req.q, req.state).out.pos
    /\ out.pos = Run(req.p, req.state).out.pos

\* C2: alts(p1..pn) runs the parsers left to right at the original cursor,
\* returns the first Success without running any later parser, and when all
\* fail returns a Failure at the maximum of the branches' failure offsets.
AltsFirstSuccessElseFarthest ==
    Done("alts") =>
        LET ps == req.ps
            runs == [i \in 1..Len(ps) |-> Run(ps[i], req.state)]
            wins == {i \in 1..Len(ps) : runs[i].out.ok}
        IN IF wins # {}
           THEN LET i == CHOOSE w \in wins : \A v \in wins : w <= v
                IN /\ out = runs[i].out
                   /\ calls = Top \o Flatten([j \in 1..i |-> runs[j].calls])
           ELSE /\ failed(out)
                /\ calls = Top \o Flatten([j \in 1..Len(ps) |-> runs[j].calls])
                /\ Len(ps) >= 1 => out.pos = MaxOf([j \in 1..Len(ps) |-> runs[j].out.pos])

\* Three branches: the second succeeds, so the third is not run.
AltsFirstSuccessWitness ==
    /\ Done("alts")
    /\ Len(req.ps) = 3
    /\ failed(Run(req.ps[1], req.state).out)
    /\ succeeded(Run(req.ps[2], req.state).out)
    /\ succeeded(out)
    /\ req.ps[3] # req.ps[1] /\ req.ps[3] # req.ps[2]
    /\ \A i \in 1..Len(calls) : calls[i].p # req.ps[3]

\* All branches fail, the farthest failure being beyond the cursor.
AltsFarthestWitness ==
    /\ Done("alts")
    /\ Len(req.ps) >= 2
    /\ failed(out)
    /\ out.pos > req.state.point

\* C3: optional(p, d) never fails; it returns p's Success when p succeeds,
\* and Success(d, c) with the cursor c unchanged when p fails at c.
OptionalTotality ==
    Done("optional") =>
        LET a == Run(req.p, req.state).out
        IN /\ succeeded(out)
           /\ IF succeeded(a) THEN out = a ELSE out = Success(req.default, req.state)

\* p consumed input before failing, and optional still left the cursor at c.
OptionalWitness ==
    /\ Done("optional")
    /\ failed(Run(req.p, req.state).out)
    /\ Run(req.p, req.state).out.pos > req.state.point
    /\ out.state = req.state

\* The Successes of the consecutive applications of p from cursor c on.
RECURSIVE Consecutive(_, _)
Consecutive(p, c) ==
    LET r == Run(p, c).out
    IN IF r.ok THEN <<r>> \o Consecutive(p, r.state) ELSE <<>>

Values(successes) == PyList([i \in 1..Len(successes) |-> successes[i].result])

\* C4: when p succeeds exactly k times consecutively from c, repeated(p, m, n)
\* returns Success with the first min(k, n) values and the cursor left by the
\* last of them if k >= m, a Failure if k < m, and runs p at most n times.
RepeatedBounds ==
    Done("repeated") =>
        LET oks == Consecutive(req.p, req.state)
            k == Len(oks)
            t == Min(k, req.maximum)
        IN /\ IF k >= req.minimum
              THEN out = Success(Values(SubSeq(oks, 1, t)),
                                 IF t = 0 THEN req.state ELSE oks[t].state)
              ELSE failed(out)
           /\ Cardinality({i \in 1..Len(calls) : calls[i].p = req.p}) <= req.maximum

\* p could succeed more often than the maximum, and repeated stopped there.
RepeatedWitness ==
    /\ Done("repeated")
    /\ req.minimum >= 1
    /\ Len(Consecutive(req.p, req.state)) > req.maximum
    /\ succeeded(out)
    /\ Len(out.result.v) = req.maximum

\* some(p), in the variant `op`: exactly the k >= 1 consecutive values of p
\* and the cursor after the k-th; p's Failure when p fails at c.
SomeExactly(op) ==
    Done(op) =>
        LET oks == Consecutive(req.p, req.state)
            k == Len(oks)
        IN IF k >= 1
           THEN out = Success(Values(oks), oks[k].state)
           ELSE out = Run(req.p, req.state).out

\* C5: in every variant of some, some(p) returns exactly the k >= 1
\* consecutive values of p in order (the first match once) and the cursor
\* left by the k-th success, and p's Failure unchanged when p fails at c.
SomeExactlyInEveryVariant == SomeExactly("some") /\ SomeExactly("Activities_some")

\* The item Successes of the longest item (sep item)* at cursor c.
RECURSIVE ItemChain(_, _, _)
ItemChain(item, sep, c) ==
    LET r == Run(item, c).out
    IN IF failed(r) THEN <<>>
       ELSE LET s == Run(sep, r.state).out
            IN IF succeeded(s) THEN <<r>> \o ItemChain(item, sep, s.state) ELSE <<r>>

\* A delimiter that was not supplied matches without consuming.
Delimiter(p, c) == IF p = NoParser THEN Success(PyNone, c) ELSE Run(p, c).out

\* C6: on start item (sep item)* end, interleave returns the item values in
\* order and the cursor just after end; with zero items it returns Success([])
\* when allow_empty and a Failure otherwise; it fails when start is supplied
\* and absent, or end is supplied and absent after the last item.
InterleaveItems ==
    Done("interleave") =>
        LET opened == Delimiter(req.start, req.state)
        IN IF failed(opened) THEN failed(out)
           ELSE LET items == ItemChain(req.item, req.sep, opened.state)
                    n == Len(items)
                    last == IF n = 0 THEN opened.state ELSE items[n].state
                    closed == Delimiter(req.end, last)
                IN IF n = 0 /\ ~req.allow_empty THEN failed(out)
                   ELSE IF failed(closed) THEN failed(out)
                   ELSE out = Success(Values(items), closed.state)

\* Two items, a separator and an end delimiter, consuming the whole input.
InterleaveWitness ==
    /\ Done("interleave")
    /\ req.end # NoParser
    /\ succeeded(out)
    /\ Len(out.result.v) = 2
    /\ out.state.point = Len(source)

\* regex, in the variant `op`: the value is the text of the requested group
\* and the cursor advances by the length of group 0.
RegexAdvancesByMatch(op) ==
    Done(op) =>
        LET m == re_match(req.pattern, view(req.state, -1))
        IN m.matched =>
            out = Success(PyStr(m.groups[req.group + 1]),
                          advance(req.state, Len(m.groups[1])))

\* C7: in every variant of regex, a match returns the text of capture group g
\* and advances the cursor by the length of the full matched span.
RegexAdvancesByMatchInEveryVariant ==
    RegexAdvancesByMatch("regex") /\ RegexAdvancesByMatch("Activities_regex")

\* C8: seq(p, q) at c returns p's Failure unchanged without running q when p
\* fails; otherwise it runs q at exactly the cursor p left and returns q's
\* Failure unchanged, or Success((x, y), c2) with q's cursor c2.
SeqShortCircuit ==
    Done("seq") =>
        LET a == Run(req.p, req.state)
        IN IF failed(a.out)
           THEN out = a.out /\ calls = Top \o a.calls
           ELSE LET b == Run(req.q, a.out.state)
                    rest == SubSeq(calls, Len(a.calls) + 2, Len(calls))
                IN /\ SubSeq(calls, 1, Len(a.calls) + 1) = Top \o a.calls
                   /\ \E i \in 1..Len(rest) : rest[i] = [p |-> req.q, state |-> a.out.state]
                   /\ \A i \in 1..Len(rest) : rest[i].p = req.q => rest[i].state = a.out.state
                   /\ IF failed(b.out)
                      THEN out = b.out
                      ELSE out = Success(PyTuple(<<a.out.result, b.out.result>>), b.out.state)

\* p consumed input and q then failed beyond the cursor p left.
SeqWitness ==
    /\ Done("seq")
    /\ succeeded(Run(req.p, req.state).out)
    /\ Run(req.p, req.state).out.state.point > req.state.point
    /\ failed(out)
    /\ out.pos > Run(req.p, req.state).out.state.point

\* C9: alt(p, q) at c runs q only if p failed, and then at exactly c; when p
\* succeeds alt returns p's Success and q is never run, also when a parser
\* sequenced after the alt fails afterwards.
OrderedChoice ==
    /\ Done("alt") =>
           LET a == Run(req.p, req.state)
               b == Run(req.q, req.state)
           IN IF succeeded(a.out)
              THEN out = a.out /\ calls = Top \o a.calls
              ELSE /\ calls = Top \o a.calls \o b.calls
                   /\ succeeded(b.out) => out = b.out
    /\ Done("seq_alt") =>
           LET a == Run(req.p, req.state)
               choice == [p |-> alt(req.p, req.q), state |-> req.state]
           IN succeeded(a.out) =>
                  LET next == call([fn |-> "seq_x", q |-> req.r], a.out.result)
                      r == Run(next, a.out.state)
                  IN /\ calls = Top \o <<choice>> \o a.calls \o r.calls
                     /\ out = r.out

\* p succeeded, the parser after the alt failed, and the input would have
\* been accepted had q been chosen instead.
OrderedChoiceWitness ==
    /\ Done("seq_alt")
    /\ succeeded(Run(req.p, req.state).out)
    /\ failed(out)
    /\ succeeded(Run(seq(req.q, req.r), req.state).out)

Same(r1, r2) ==
    /\ r1.ok = r2.ok
    /\ IF r1.ok THEN r1.result = r2.result /\ r1.state = r2.state ELSE r1.pos = r2.pos

\* C10: for every cursor c, fix(f) applied to c returns the same Success value
\* and cursor, or the same Failure pos, as f(fix(f)) applied to c.
FixedPointLaw ==
    Done("fix") => Same(out, Run(call(req.f, fix(req.f)), req.state).out)

\* The recursive occurrence was invoked twice in one successful parse.
FixedPointWitness ==
    /\ Done("fix")
    /\ succeeded(out)
    /\ Cardinality({i \in 1..Len(calls) : calls[i].p.op = "z_lambda"}) >= 2

\* The steps a do-block takes from cursor c: each parser the generator
\* yields when resumed with the value of the step before, the cursor it is
\* run at, and its result; the steps end with the first that fails.
RECURSIVE Steps(_, _, _)
Steps(generator, sent, c) ==
    LET r == send(generator, sent)
    IN IF r.stop THEN <<>>
       ELSE LET o == Run(r.yielded, c).out
            IN <<[generator |-> generator, p |-> r.yielded, state |-> c, out |-> o]>>
               \o (IF o.ok THEN Steps(r.generator, o.result, o.state) ELSE <<>>)

\* What the parse logs for these steps: the resumption, then the run of
\* the yielded parser, for each step.
Ran(S) ==
    Flatten([i \in 1..Len(S) |->
                <<[p |-> resumption(S[i].generator), state |-> S[i].state]>>
                \o Run(S[i].p, S[i].state).calls])

\* C11: a do-block runs the parsers its generator yields in order, the first
\* at the cursor it received and each later one at the cursor the success
\* before it left, resuming the generator with each value; at the first
\* failure it returns that Failure unchanged and neither resumes the
\* generator nor runs anything again.
DoStepsInOrder ==
    Done("do") =>
        LET S == Steps(instantiate(req.fn), PyNone, req.state)
            n == Len(S)
        IN /\ n > 0 => S[1].state = req.state
           /\ \A i \in 2..n : S[i - 1].out.ok /\ S[i].state = S[i - 1].out.state
           /\ IF n > 0 /\ failed(S[n].out)
              THEN out = S[n].out /\ calls = Top \o Ran(S)
              ELSE Len(calls) > Len(Ran(S))
                   /\ SubSeq(calls, 1, 1 + Len(Ran(S))) = Top \o Ran(S)

\* A do-block whose third step fails after two steps advanced the cursor.
DoStepsWitness ==
    /\ Done("do")
    /\ req.state.point = 1
    /\ LET S == Steps(instantiate(req.fn), PyNone, req.state)
       IN Len(S) = 3 /\ failed(S[3].out) /\ S[3].state.point = 3 /\ out.pos = 3

\* The value a do-block's generator returns when it is run from cursor c
\* (None when a step fails before it returns).
RECURSIVE ReturnValue(_, _, _)
ReturnValue(generator, sent, c) ==
    LET r == send(generator, sent)
    IN IF r.stop THEN r.value
       ELSE LET o == Run(r.yielded, c).out
            IN IF o.ok THEN ReturnValue(r.generator, o.result, o.state) ELSE PyNone

\* pipe(p1, v1 -> pipe(p2, v2 -> ... pure(v))) for the generator function fn.
Nested(fn) == call([fn |-> "rest", generator |-> instantiate(fn)], PyNone)

\* C12 as stated: a do-block returns on every cursor the result of the
\* nested pipe of its steps ending in pure(v), whatever value v it returns.
DoIsNestedPipe ==
    Done("do") => out = Run(Nested(req.fn), req.state).out

\* C12: a do-block that returns a value v that is not a parser returns on
\* every cursor the result of the nested pipe of its steps ending in
\* pure(v): the same value and cursor, or the same message, pos and data.
DoIsNestedPipeOfValues ==
    Done("do") /\ ~callable(ReturnValue(instantiate(req.fn), PyNone, req.state)) =>
        out = Run(Nested(req.fn), req.state).out

\* A do-block whose second parser is chosen from the first value succeeds.
DoIsNestedPipeWitness ==
    /\ Done("do")
    /\ req.fn.gen = "twice"
    /\ req.state.point = 1
    /\ succeeded(out)
    /\ out = Run(Nested(req.fn), req.state).out

\* C13: many(p) never fails: when p succeeds k >= 0 times consecutively from
\* cursor c, many(p) returns Success with the list of those k values in order
\* and the cursor after the k-th success (c itself when k = 0); what the
\* failing last attempt consumed is discarded.
ManyNeverFails ==
    Done("many") =>
        LET oks == Consecutive(req.p, req.state)
            k == Len(oks)
        IN out = Success(Values(oks), IF k = 0 THEN req.state ELSE oks[k].state)

\* p matched, and its last attempt failed beyond the cursor it started at.
ManyWitness ==
    /\ Done("many")
    /\ LET oks == Consecutive(req.p, req.state)
           k == Len(oks)
       IN /\ k >= 1
          /\ Run(req.p, oks[k].state).out.pos > oks[k].state.point
          /\ out.state = oks[k].state
          /\ Len(out.result.v) = k

\* C15: parse runs of the same parser that are in progress together, their
\* turns interleaved in any order, each return the result the run returns
\* alone, and every invocation of a do-block, nested ones included, has a
\* generator of its own.
RunsDoNotInterfere ==
    pc = "running" =>
        /\ \A r \in Runs :
              parses[r].status = "returned" => parses[r].out = Run(req.parser, parses[r].state).out
        /\ \A r1, r2 \in Runs :
              \A i \in 1..Len(parses[r1].frames), j \in 1..Len(parses[r2].frames) :
                  parses[r1].frames[i].generator = parses[r2].frames[j].generator
                      => r1 = r2 /\ i = j

\* Two runs of a recursive do-block on different cursors, each with a nested
\* invocation, made their generators in turn and have returned.
RunsInterleavedWitness ==
    /\ pc = "running"
    /\ \A r \in Runs : parses[r].status = "returned" /\ Len(parses[r].made) >= 2
    /\ parses["first"].state # parses["second"].state
    /\ parses["first"].made[1] < parses["second"].made[1]
    /\ parses["second"].made[1] < parses["first"].made[2]
    /\ parses["first"].made[2] < parses["second"].made[2]
    /\ succeeded(parses["first"].out)
    /\ failed(parses["second"].out)

\* C14: a second call of parse with the same input, parser and start, made
\* after the first returned, returns a result identical to the first: the
\* same value and cursor, or the same message, pos and data.
SecondCallSame ==
    /\ pc = "running"
    /\ parses["second"].status = "returned"
    /\ parses["second"].after
    /\ parses["second"].state = parses["first"].state
    => parses["second"].out = parses["first"].out

\* A do-block with a nested invocation was parsed twice in succession.
SecondCallWitness ==
    /\ pc = "running"
    /\ parses["second"].status = "returned"
    /\ parses["second"].after
    /\ parses["second"].state = parses["first"].state
    /\ Len(parses["second"].made) = 2
    /\ succeeded(parses["second"].out)

\* C16: no step of a caller, building a combinator from existing parsers,
\* advancing a cursor or applying a parser, changes the input or an object
\* that exists: every parser keeps its function and its label, every cursor
\* its source, point and start; a label is set only on the object just made.
NonMutation ==
    [][/\ source' = source
       /\ Len(heap') >= Len(heap)
       /\ \A i \in 1..Len(heap) : heap'[i] = heap[i]]_vars

\* optional(p) was built from an existing parser p and applied to a cursor
\* beyond the beginning of the input, and p and the cursor are still there.
NonMutationWitness ==
    /\ pc = "done"
    /\ req.op = "apply"
    /\ Len(heap) >= 3
    /\ \E p \in 1..Len(heap) :
          /\ is_parser(heap[p])
          /\ heap[req.p] = optional(heap[p], PyNone)
          /\ get_label(heap[req.p]) = get_label(heap[p]) \o "?"
    /\ heap[req.state].point > 0
    /\ succeeded(out)

\* C17: applying a parser, of either variant, to any input at any start
\* returns a Success or a Failure; no exception is raised at parse time.
FailuresAreValues ==
    pc = "done" /\ "parser" \in DOMAIN req =>
        "ok" \in DOMAIN out /\ "raised" \notin DOMAIN out

\* C18: a ParseState built by the constructor from any integer point, or by
\* advance(n) with n >= 0, has 0 <= point <= len(source); a negative point
\* counts from the end and a point beyond the end is clamped; advance(n)
\* gives point' = min(point + n, len(source)) with the source and the start
\* of its receiver.
CursorInvariant ==
    /\ Done("ParseState") =>
          /\ 0 <= out.point /\ out.point <= Len(out.source)
          /\ out.source = source
          /\ req.point > Len(source) => out.point = Len(source)
          /\ req.point \in 0..Len(source) => out.point = req.point
          /\ req.point \in (0 - Len(source))..(-1) => out.point = Len(source) + req.point
    /\ Done("advance") =>
          /\ 0 <= out.point /\ out.point <= Len(out.source)
          /\ out.point = Min(req.state.point + req.by, Len(req.state.source))
          /\ out.source = req.state.source
          /\ out.start = req.state.start

\* A cursor past the beginning was advanced by more than what was left.
CursorWitness ==
    /\ Done("advance")
    /\ req.state.point > 0
    /\ req.state.point < Len(source)
    /\ req.by > Len(source) - req.state.point
    /\ out.point = Len(source)
    /\ out.start = 0

\* The number of items a primitive parser reads.
Needs(p) == IF p.op = "this_str" THEN p.n ELSE 1

\* C19: require(n) returns the next n items and true exactly when
\* point + n <= len(source); any_char, char, char_in, char_not_in,
\* char_satisfies and string at a cursor with too few items left return a
\* Failure whose pos is the cursor's point, every Failure of theirs is at
\* that point, and a match is a Success of the items read with the cursor
\* advanced by exactly 1, or len(s) for string(s).
GracefulEndOfInput ==
    /\ Done("require") =>
          LET c == req.state
          IN /\ out.enough <=> c.point + req.size <= Len(c.source)
             /\ out.enough => out.view = SubSeq(c.source, c.point + 1, c.point + req.size)
    /\ Done("primitive") =>
          LET c == req.state
              n == Needs(req.parser)
          IN /\ c.point + n > Len(c.source) => failed(out)
             /\ failed(out) => out.pos = c.point
             /\ succeeded(out) =>
                   /\ out.state = [c EXCEPT !.point = c.point + n]
                   /\ out.result = PyStr(SubSeq(c.source, c.point + 1, c.point + n))

\* string(s) at a cursor past the beginning with some items left, fewer
\* than len(s).
GracefulWitness ==
    /\ Done("primitive")
    /\ req.parser.op = "this_str"
    /\ req.state.point > 0
    /\ req.state.point < Len(source)
    /\ req.state.point + req.parser.n > Len(source)
    /\ failed(out)
    /\ out.pos = req.state.point

\* The nesting depth after the first i items of text: the openings less the
\* closings among them.
Depth(text, i, opening, closing) ==
    Cardinality({j \in 1..i : text[j] = opening})
      - Cardinality({j \in 1..i : text[j] = closing})

\* The lengths of the balanced prefixes of text that begin with an opening.
BalancedLengths(text, opening, closing) ==
    {i \in 1..Len(text) :
        /\ text[1] = opening
        /\ Depth(text, i, opening, closing) = 0
        /\ \A j \in 1..i : Depth(text, j, opening, closing) >= 0}

\* C20: balanced_delimiters(opening, closing) at a cursor of any point
\* returns Success with the shortest balanced prefix of the remaining text
\* and the cursor advanced by its length, and a Failure at the cursor's
\* point when the remaining text does not begin with the opening delimiter
\* or never balances.
BalancedAtEveryCursor ==
    Done("balanced") =>
        LET c == req.state
            text == view(c, -1)
            lengths == BalancedLengths(text, req.opening, req.closing)
        IN IF lengths = {}
           THEN failed(out) /\ out.pos = c.point
           ELSE LET shortest == CHOOSE i \in lengths : \A j \in lengths : i <= j
                IN /\ succeeded(out)
                   /\ out.result.v[1] = PyStr(SubSeq(text, 1, shortest))
                   /\ out.state = [c EXCEPT !.point = c.point + shortest]

\* The same for cursors at the beginning of the input alone.
BalancedAtTheBeginning ==
    Done("balanced") /\ req.state.point = 0 => BalancedAtEveryCursor

\* The runs of p1..pn one after the other from cursor c, each at the cursor
\* the one before left, up to and including the first that fails.
RECURSIVE InTurn(_, _)
InTurn(ps, c) ==
    IF ps = <<>> THEN <<>>
    ELSE LET r == Run(Head(ps), c)
         IN IF r.out.ok THEN <<r>> \o InTurn(Tail(ps), r.out.state) ELSE <<r>>

\* C21: chain(p1..pn) runs the parsers in order, each at the cursor the one
\* before left, and runs none after the first that fails; when all succeed
\* it returns the list of their values with the cursor pn left (the empty
\* list at the cursor it received for n = 0); at the first failure it
\* returns a Failure with that failure's pos and data and its message behind
\* a prefix.
ChainInOrder ==
    Done("chain") =>
        LET rs == InTurn(req.ps, req.state)
            n == Len(rs)
        IN /\ calls = Top \o Flatten([i \in 1..n |-> rs[i].calls])
           /\ IF n = 0 THEN out = Success(PyList(<<>>), req.state)
              ELSE IF rs[n].out.ok
              THEN /\ n = Len(req.ps)
                   /\ out = Success(PyList([i \in 1..n |-> rs[i].out.result]), rs[n].out.state)
              ELSE /\ failed(out)
                   /\ out.pos = rs[n].out.pos
                   /\ out.data = rs[n].out.data
                   /\ out.message = "chained parsed failed: " \o rs[n].out.message

\* Three parsers: the first moves the cursor, the second fails there with
\* data of its own, and the third is not run.
ChainWitness ==
    /\ Done("chain")
    /\ Len(req.ps) = 3
    /\ failed(out)
    /\ out.pos > req.state.point
    /\ out.data # NoData
    /\ Len(calls) = 3
    /\ req.ps[3] # req.ps[1] /\ req.ps[3] # req.ps[2]

\* Three parsers that all succeed.
ChainAllWitness ==
    /\ Done("chain")
    /\ Len(req.ps) = 3
    /\ succeeded(out)
    /\ Len(out.result.v) = 3
    /\ out.state.point = Len(source)

\* The data of a Failure keeps every entry of the data of the branch
\* failure b.
Retains(data, b) ==
    b.data # NoData =>
        /\ data # NoData
        /\ \A key \in DOMAIN b.data : key \in DOMAIN data /\ data[key] = b.data[key]

\* C22: when every branch of alt(p, q) or of alts(p1..pn) fails, the data of
\* the resulting Failure keeps the entries of every branch's data and has
\* under failure-positions the failure offsets of the branches in order.
ExhaustionMergesDiagnostics ==
    (Done("alt") \/ Done("alts")) =>
        LET ps == IF req.op = "alt" THEN <<req.p, req.q>> ELSE req.ps
            bs == [i \in 1..Len(ps) |-> Run(ps[i], req.state).out]
        IN (\A i \in 1..Len(ps) : failed(bs[i])) =>
               /\ failed(out)
               /\ out.data # NoData
               /\ "failure-positions" \in DOMAIN out.data
               /\ out.data["failure-positions"].v = [i \in 1..Len(ps) |-> PyInt(bs[i].pos)]
               /\ \A i \in 1..Len(ps) : Retains(out.data, bs[i])

\* The part of C22 about failure-positions alone.
ExhaustionListsPositions ==
    (Done("alt") \/ Done("alts")) =>
        LET ps == IF req.op = "alt" THEN <<req.p, req.q>> ELSE req.ps
            bs == [i \in 1..Len(ps) |-> Run(ps[i], req.state).out]
        IN (\A i \in 1..Len(ps) : failed(bs[i])) =>
               /\ failed(out)
               /\ out.data["failure-positions"].v = [i \in 1..Len(ps) |-> PyInt(bs[i].pos)]

\* The invocations of the recursive occurrence made by a parse: an upper
\* bound of the depth of the recursion.
Recursions == Cardinality({i \in 1..Len(calls) :
                           calls[i].p.op \in {"z_lambda", "fix_rec", "Activities_fix_rec"}})

Recursive == Done("fix") \/ Done("fix_rec") \/ Done("Activities_fix")

\* C23: a parser made by fix or fix_rec, or by fix(rec, base) of the
\* Activities variant, from a builder that consumes an item before every
\* recursive occurrence returns a Success or a Failure on every input, with
\* a recursion no deeper than the input is long.
RecursionTerminates ==
    Recursive =>
        /\ "ok" \in DOMAIN out
        /\ Recursions <= Len(source) + 1

\* The same for fix and fix_rec of src/Src alone.
ZRecursionTerminates ==
    (Done("fix") \/ Done("fix_rec")) =>
        /\ "ok" \in DOMAIN out
        /\ Recursions <= Len(source) + 1

\* fix(rec, base) of the Activities variant returns a Success after no more
\* nested calls than the input is long.
ActivitiesFixMatches ==
    Done("Activities_fix") /\ "ok" \in DOMAIN out => out.ok /\ Recursions <= Len(source) + 1

\* The loop of many is at a cursor where p succeeds without consuming.
Stuck ==
    /\ pc = "looping"
    /\ LET parsed == Run(req.p, locals.state1).out
       IN parsed.ok /\ parsed.state.point = locals.state1.point

\* Every success of p from the cursor of the loop on consumes input.
RECURSIVE ConsumesFrom(_, _)
ConsumesFrom(p, c) ==
    LET parsed == Run(p, c).out
    IN parsed.ok => parsed.state.point > c.point /\ ConsumesFrom(p, parsed.state)

\* The calls of p the loop has made.
Turns == Cardinality({i \in 1..Len(calls) : calls[i].p = req.p})

\* C24: the loop of many(p) ends, after at most len(source) - point + 1
\* calls of p, when every success of p consumes input: it ends unless it
\* comes to a cursor where p succeeds without consuming; from such a cursor
\* it never returns; and a loop that returned gave what p_star gives.
ManyTerminatesUnlessStuck ==
    /\ (pc = "looping") ~> (pc = "done" \/ Stuck)
    /\ [](Stuck => [](pc = "looping"))
    /\ [](pc \in {"looping", "done"} /\ ConsumesFrom(req.p, req.state)
            => ~Stuck /\ Turns <= Len(source) - req.state.point + 1)
    /\ [](pc = "done" => out = Run(req.parser, req.state).out
                         /\ calls = Run(req.parser, req.state).calls)

\* A loop returned after as many calls of p as the bound allows.
ManyTerminatesWitness ==
    /\ pc = "done"
    /\ req.state.point = 1
    /\ Len(source) >= 3
    /\ Turns = Len(source) - req.state.point + 1

\* A loop consumed input and then came to a cursor where p succeeds without
\* consuming.
ManyStuckWitness ==
    /\ Stuck
    /\ locals.state1.point > req.state.point
    /\ Len(locals.results) = MaxTurns

\* C25: when interleave has parsed an item and its loop stops, at a
\* separator that fails or at an item that fails after a separator, end is
\* applied at the cursor just after the last item that succeeded, and a
\* Failure of end is returned as it is; without end that cursor is the
\* cursor of the Success.
InterleaveEndsAfterLastItem ==
    Done("interleave") =>
        LET opened == Delimiter(req.start, req.state)
            items == IF failed(opened) THEN <<>>
                     ELSE ItemChain(req.item, req.sep, opened.state)
            n == Len(items)
        IN n > 0 =>
            IF req.end = NoParser THEN succeeded(out) /\ out.state = items[n].state
            ELSE /\ calls[Len(calls)] = [p |-> req.end, state |-> items[n].state]
                 /\ req.end \notin {req.start, req.item, req.sep}
                      => \A i \in 1..Len(calls) : calls[i].p = req.end => i = Len(calls)
                 /\ LET closed == Run(req.end, items[n].state).out
                    IN IF failed(closed) THEN out = closed
                       ELSE out.state = closed.state

\* A separator was consumed and the item after it failed further on; end
\* fails at the cursor after the last item, before the separator.
InterleaveEndWitness ==
    /\ Done("interleave")
    /\ req.end # NoParser
    /\ failed(out)
    /\ req.end \notin {req.start, req.item, req.sep}
    /\ \E j \in 1..Len(calls) :
          /\ calls[j].p = req.sep
          /\ calls[j].state = calls[Len(calls)].state
          /\ succeeded(Run(req.sep, calls[j].state).out)
    /\ \E i \in 1..Len(calls) :
          /\ calls[i].p = req.item
          /\ failed(Run(req.item, calls[i].state).out)
          /\ Run(req.item, calls[i].state).out.pos > out.pos + 1

\* The offsets (from 0) of the delimiters in text, from left to right.
Occurrences(text, opening, closing) ==
    SelectSeq([j \in 1..Len(text) |-> j - 1],
              LAMBDA j : text[j + 1] \in {opening, closing})

Magnitude(n) == IF n < 0 THEN 0 - n ELSE n

\* The position list of a successful balanced_delimiters parse has one entry
\* for each delimiter of the matched text, from left to right, with the
\* offset of the delimiter from the cursor as its magnitude, not negative
\* for an opening delimiter and negative for a closing one.
SignedPositions ==
    LET balanced == out.result.v[1].v
        positions == out.result.v[2].v
        where == Occurrences(balanced, req.opening, req.closing)
    IN /\ Len(positions) = Len(where)
       /\ \A i \in 1..Len(where) :
             /\ Magnitude(positions[i].v) = where[i]
             /\ balanced[where[i] + 1] = req.opening => positions[i].v >= 0
             /\ balanced[where[i] + 1] = req.closing => positions[i].v < 0

\* C26: the positions of a successful balanced_delimiters parse, with
\* seen_opening false or true, are signed offsets from which the kind of
\* every delimiter can be told.
BalancedPositionsSigned ==
    (Done("balanced") \/ Done("balanced_seen")) /\ succeeded(out) => SignedPositions

\* The same with seen_opening false alone.
BalancedPositionsSignedFromOpening ==
    Done("balanced") /\ succeeded(out) => SignedPositions

\* With seen_opening true, all entries but one for a closing delimiter at
\* the cursor are signed offsets.
BalancedPositionsSignedPastCursor ==
    Done("balanced_seen") /\ succeeded(out) /\ source[req.state.point + 1] # req.closing
        => SignedPositions

\* In the variant `op`, a Success of the joining parser is the Success of
\* fmap(chain(*ps), sep.join): the values joined by sep and the cursor the
\* last parser left.
JoinsLikeChain(op) ==
    Done(op) =>
        LET chained_ == Run(fmap(chain(req.ps), [fn |-> "join", sep |-> req.sep]), req.state).out
        IN /\ succeeded(out) <=> succeeded(chained_)
           /\ succeeded(out) => out = chained_

SjoinJoinsLikeChain == JoinsLikeChain("sjoin")

\* C28: when fewer than the minimum of repetitions succeed, repeated(p, m, n)
\* applied at cursor c returns a Failure at c.point, not at the offset the
\* repetitions reached nor at the pos of the attempt that failed, with a
\* message of its own and no data.
RepeatedShortfallAtStart ==
    Done("repeated") /\ Len(Consecutive(req.p, req.state)) < req.minimum =>
        out = Failure("repeated(" \o get_label(req.p) \o ") parsed fewer than minimum ("
                        \o ToString(req.minimum) \o ") items",
                      req.state.point, NoData)

\* A repetition succeeded and the next attempt failed beyond the offset
\* reached, with data of its own.
RepeatedShortfallWitness ==
    /\ Done("repeated")
    /\ failed(out)
    /\ req.state.point = 1
    /\ LET oks == Consecutive(req.p, req.state)
       IN /\ Len(oks) >= 1
          /\ LET attempt == Run(req.p, oks[Len(oks)].state).out
             IN /\ attempt.pos > oks[Len(oks)].state.point
                /\ attempt.data # NoData

\* The cursor `state` is one a parse begun at req.state reaches: it reads
\* the same source from the same start, at or after the point of req.state.
Reached(state) ==
    /\ state.source = req.state.source
    /\ state.start = req.state.start
    /\ state.start <= state.point
    /\ req.state.point <= state.point
    /\ state.point <= Len(state.source)

\* The result r of a parser applied at cursor c moves forward and stays
\* within the source.
Forward(c, r) ==
    /\ succeeded(r) =>
          /\ r.state.source = c.source
          /\ r.state.start = c.start
          /\ c.point <= r.state.point
          /\ r.state.point <= Len(c.source)
    /\ failed(r) => c.point <= r.pos /\ r.pos <= Len(c.source)

\* C29: in a parse begun by parse(s, p, k), every parser invoked is applied
\* at a cursor with the source and the start of the first one and with
\* start <= point <= len(source); its Success carries a cursor with the
\* same source and start that did not move backwards, and its Failure a pos
\* between the point of the cursor and len(source).
MonotoneCursors ==
    pc = "done" /\ "parser" \in DOMAIN req /\ "ok" \in DOMAIN out =>
        /\ Forward(req.state, out)
        /\ \A i \in DOMAIN calls :
              /\ Reached(calls[i].state)
              /\ calls[i].p.op # "generator.send" =>
                    LET r == Run(calls[i].p, calls[i].state).out
                    IN "ok" \in DOMAIN r => Forward(calls[i].state, r)

\* A parse begun at point 1 consumed input, then looked ahead with a
\* parser that consumed more, and returned the cursor from before the
\* look ahead.
MonotoneCursorsWitness ==
    /\ Done("peek")
    /\ succeeded(out)
    /\ req.state.point = 1
    /\ out.state.start = 1
    /\ out.state.point > 1
    /\ \E i \in DOMAIN calls :
          /\ calls[i].p = peek(req.q)
          /\ calls[i].state = out.state
          /\ Run(req.q, calls[i].state).out.state.point > out.state.point

\* C30: regex('^' + r), of either variant, returns at every cursor what
\* regex(r) returns: only the leading '^' is removed from the pattern.
AnchorIsRedundant ==
    /\ Done("anchored_regex") => out = Run(regex(req.pattern, NOFLAG, 0), req.state).out
    /\ Done("Activities_anchored_regex") =>
          out = Run(Activities_regex(req.pattern, NOFLAG, 0), req.state).out

\* The same for patterns r of one character, which is all that is kept of
\* the pattern after the '^'.
AnchorIsRedundantForOneCharacter ==
    /\ Done("anchored_regex") /\ Len(req.pattern) = 1 =>
          out = Run(regex(req.pattern, NOFLAG, 0), req.state).out
    /\ Done("Activities_anchored_regex") /\ Len(req.pattern) = 1 =>
          out = Run(Activities_regex(req.pattern, NOFLAG, 0), req.state).out

\* regex('^' + r) matches with the first character of r alone.
AnchoredRegexKeepsOneCharacter ==
    /\ Done("anchored_regex") =>
          out = Run(regex(<<req.pattern[1]>>, NOFLAG, 0), req.state).out
    /\ Done("Activities_anchored_regex") =>
          out = Run(Activities_regex(<<req.pattern[1]>>, NOFLAG, 0), req.state).out

====
